---- MODULE Spec2Model ----
(***************************************************************************)
(* A model of json.h (fenze/json.h): the tagged value tree, the growable   *)
(* array and object containers, and the allocation accounting of the heap  *)
(* blocks they own.                                                        *)
(*                                                                         *)
(* Heap blocks are numbered 1..MaxBlocks; 0 is NULL.  A value is a record  *)
(* carrying the number of its cell and of every block it owns.  live is    *)
(* the set of blocks allocated and not yet released; every call records    *)
(* the sequence of blocks it passed to free().  json_alloc hands out the   *)
(* lowest block that is neither live nor still pointed at by a slot of the *)
(* tree; json_realloc of a live block resizes it and keeps its number.     *)
(* Addresses carry no meaning of their own, so after every call the blocks *)
(* are renumbered in the order a walk of the tree meets them.              *)
(***************************************************************************)
EXTENDS Integers, Sequences, FiniteSets, TLC

VARIABLES root, live, last, crashed, parser

vars == <<root, live, last, crashed, parser>>

\* ---------------------------------------------------------------- bounds
MaxBlocks == 12
MaxIndex == 3
MaxLen == 3
MaxTokens == 4
MaxFail == 6

Blocks == 1..MaxBlocks

\* ------------------------------------------------------ program constants
JSON_ARRAY_INITIAL_CAPACITY == 1
JSON_ARRAY_CAPACITY_MULTIPLIER == 2
JSON_ARRAY_CAPACITY_THRESHOLD == 1
JSON_OBJECT_INITIAL_CAPACITY == 1
JSON_OBJECT_CAPACITY_MULTIPLIER == 2
JSON_OBJECT_CAPACITY_THRESHOLD == 1

\* ------------------------------------------------------------- C strings
\* A C string is the byte sequence in front of its terminating zero.
RECURSIVE json__strlen(_)
json__strlen(s) ==
    IF s = <<>> \/ Head(s) = 0 THEN 0 ELSE 1 + json__strlen(Tail(s))

RECURSIVE StrWalk(_, _)
StrWalk(s1, s2) ==
    \* while (*s1 && *s1 == *s2) { s1++; s2++; }  return *s1 == 0 && *s2 == 0
    LET c1 == IF s1 = <<>> THEN 0 ELSE Head(s1)
        c2 == IF s2 = <<>> THEN 0 ELSE Head(s2)
    IN  IF c1 # 0 /\ c1 = c2 THEN StrWalk(Tail(s1), Tail(s2))
        ELSE c1 = 0 /\ c2 = 0

json__streq(s1, s2) ==
    IF json__strlen(s1) # json__strlen(s2) THEN FALSE ELSE StrWalk(s1, s2)

\* ---------------------------------------------------------------- values
Uninit == [type |-> "uninit"]
NullEntry == [rec |-> 0]
UninitEntry == [rec |-> -1]

IsValue(s) == s.type \in {"null", "boolean", "number", "string", "array", "object"}

RECURSIVE Repeat(_, _)
Repeat(x, n) == IF n <= 0 THEN <<>> ELSE <<x>> \o Repeat(x, n - 1)

\* Constructors.  ids is the sequence of blocks json_alloc hands out next.
json_null_cell(ids) == [type |-> "null", cell |-> ids[1]]
json_boolean_new(ids, b) == [type |-> "boolean", cell |-> ids[1], number |-> b]
json_number_new(ids, x) == [type |-> "number", cell |-> ids[1], number |-> x]
json_string_new(ids, bytes) ==
    [type |-> "string", cell |-> ids[1], buf |-> ids[2],
     length |-> json__strlen(bytes), value |-> SubSeq(bytes, 1, json__strlen(bytes))]

json_array_init(c) ==
    [type |-> "array", cell |-> c, items |-> 0, capacity |-> 0, length |-> 0, slots |-> <<>>]
json_array_new(ids) == json_array_init(ids[1])

json_object_init(c) ==
    [type |-> "object", cell |-> c, items |-> 0, capacity |-> 0, n_items |-> 0, slots |-> <<>>]
json_object_new(ids) == json_object_init(ids[1])

\* ----------------------------------------------------------------- free
\* Each free routine yields the sequence of blocks it passes to free().
RECURSIVE json_free(_), json_array_free(_), json_object_free(_),
          ArrayFreeItems(_, _), ObjectFreeItems(_, _)

\* Variant: the string buffer is not released.
json_string_free_cellonly(s) == <<s.cell>>

json_string_free(s) == <<s.buf, s.cell>>

json_free(v) ==
    CASE v.type = "object" -> json_object_free(v)
      [] v.type = "array"  -> json_array_free(v)
      [] v.type = "string" -> json_string_free(v)
      [] OTHER             -> <<v.cell>>

ArrayFreeItems(a, i) ==
    IF i > a.length THEN <<>>
    ELSE LET it == a.slots[i]
             f  == CASE it.type = "object" -> json_object_free(it)
                     [] it.type = "array"  -> json_array_free(it)
                     [] it.type = "string" -> json_string_free(it)
                     [] OTHER              -> <<it.cell>>
         IN  f \o ArrayFreeItems(a, i + 1)

json_array_free(v) ==
    ArrayFreeItems(v, 1) \o (IF v.items = 0 THEN <<>> ELSE <<v.items>>) \o <<v.cell>>

ObjectFreeItems(o, i) ==
    IF i > o.n_items THEN <<>>
    ELSE LET e == o.slots[i]
         IN  json_free(e.value) \o <<e.key, e.rec>> \o ObjectFreeItems(o, i + 1)

\* Variant: the item buffer is not released.
json_object_free_entries(o) == ObjectFreeItems(o, 1) \o <<o.cell>>

json_object_free(o) ==
    ObjectFreeItems(o, 1) \o (IF o.items = 0 THEN <<>> ELSE <<o.items>>) \o <<o.cell>>

\* ------------------------------------------------------------ accounting
RECURSIVE Count(_, _)
Count(tr, b) ==
    IF tr = <<>> THEN 0 ELSE (IF Head(tr) = b THEN 1 ELSE 0) + Count(Tail(tr), b)

Range(tr) == {tr[i] : i \in 1..Len(tr)}

\* free(): the blocks of a trace leave the live set.
Release(lv, tr) == lv \ Range(tr)

\* A trace releases a block that is not live, or one block twice.
RECURSIVE BadFree(_, _)
BadFree(lv, tr) ==
    IF tr = <<>> THEN FALSE
    ELSE Head(tr) \notin lv \/ BadFree(lv \ {Head(tr)}, Tail(tr))

\* Every block a well-formed value owns (its cell included).
RECURSIVE BlocksOf(_), SlotBlocks(_, _, _)
SlotBlocks(v, i, n) ==
    IF i > n THEN {}
    ELSE (IF v.type = "array"
          THEN (IF IsValue(v.slots[i]) THEN BlocksOf(v.slots[i]) ELSE {})
          ELSE IF v.slots[i].rec <= 0 THEN {}
          ELSE {v.slots[i].rec} \cup (IF v.slots[i].key = 0 THEN {} ELSE {v.slots[i].key})
               \cup (IF IsValue(v.slots[i].value) THEN BlocksOf(v.slots[i].value) ELSE {}))
         \cup SlotBlocks(v, i + 1, n)

BlocksOf(v) ==
    CASE v.type = "string" -> {v.cell, v.buf}
      [] v.type = "array"  -> {v.cell} \cup (IF v.items = 0 THEN {} ELSE {v.items})
                                \cup SlotBlocks(v, 1, v.length)
      [] v.type = "object" -> {v.cell} \cup (IF v.items = 0 THEN {} ELSE {v.items})
                                \cup SlotBlocks(v, 1, v.n_items)
      [] OTHER             -> {v.cell}

\* Every block some slot of the container still points at, stale slots too.
Refs(v) == {v.cell} \cup (IF v.items = 0 THEN {} ELSE {v.items})
           \cup SlotBlocks(v, 1, Len(v.slots))

\* The blocks json_alloc hands out next, lowest first.
RECURSIVE Ascending(_)
Ascending(S) ==
    IF S = {} THEN <<>>
    ELSE LET m == CHOOSE x \in S : \A y \in S : x <= y
         IN  <<m>> \o Ascending(S \ {m})

Fresh(lv, v) == Ascending(Blocks \ (lv \cup Refs(v)))

Drop(ids, n) == SubSeq(ids, n + 1, Len(ids))

\* The blocks a walk of a value meets, in order, stale slots included.
RECURSIVE Walk(_), WalkSlots(_, _)
WalkSlots(v, i) ==
    IF i > Len(v.slots) THEN <<>>
    ELSE (IF v.type = "array" THEN Walk(v.slots[i])
          ELSE IF v.slots[i].rec <= 0 THEN <<>>
          ELSE <<v.slots[i].rec>> \o (IF v.slots[i].key = 0 THEN <<>> ELSE <<v.slots[i].key>>)
               \o Walk(v.slots[i].value))
         \o WalkSlots(v, i + 1)

Walk(v) ==
    CASE v.type = "uninit" -> <<>>
      [] v.type = "string" -> <<v.cell, v.buf>>
      [] v.type \in {"array", "object"} ->
            <<v.cell>> \o (IF v.items = 0 THEN <<>> ELSE <<v.items>>) \o WalkSlots(v, 1)
      [] OTHER -> <<v.cell>>

RECURSIVE Dedup(_, _)
Dedup(tr, seen) ==
    IF tr = <<>> THEN <<>>
    ELSE IF Head(tr) \in seen THEN Dedup(Tail(tr), seen)
    ELSE <<Head(tr)>> \o Dedup(Tail(tr), seen \cup {Head(tr)})

Pos(ord, b) == CHOOSE i \in 1..Len(ord) : ord[i] = b

\* A value with every block number b replaced by f[b].
RECURSIVE Renumber(_, _)
Renumber(v, f) ==
    CASE v.type = "uninit" -> v
      [] v.type = "string" -> [v EXCEPT !.cell = f[v.cell], !.buf = f[v.buf]]
      [] v.type = "array" ->
            [v EXCEPT !.cell = f[v.cell],
                      !.items = IF v.items = 0 THEN 0 ELSE f[v.items],
                      !.slots = [i \in 1..Len(v.slots) |-> Renumber(v.slots[i], f)]]
      [] v.type = "object" ->
            [v EXCEPT !.cell = f[v.cell],
                      !.items = IF v.items = 0 THEN 0 ELSE f[v.items],
                      !.slots = [i \in 1..Len(v.slots) |->
                                   IF v.slots[i].rec <= 0 THEN v.slots[i]
                                   ELSE [v.slots[i] EXCEPT
                                           !.rec = f[v.slots[i].rec],
                                           !.key = IF v.slots[i].key = 0 THEN 0
                                                   ELSE f[v.slots[i].key],
                                           !.value = Renumber(v.slots[i].value, f)]]]
      [] OTHER -> [v EXCEPT !.cell = f[v.cell]]

\* ------------------------------------------------------------ json_array
\* Variant: the capacity is not multiplied.
ArrayGrownCapacity_flat(capacity) ==
    IF capacity > 0 THEN capacity ELSE JSON_ARRAY_INITIAL_CAPACITY

\* The capacity json_array_push grows to.
ArrayGrownCapacity(capacity) ==
    IF capacity > 0 THEN capacity * JSON_ARRAY_CAPACITY_MULTIPLIER
    ELSE JSON_ARRAY_INITIAL_CAPACITY

\* Variant: the result of json_realloc is stored before it is tested.
ArrayPushFailed_lost(a) ==
    [val |-> [a EXCEPT !.items = 0], rc |-> -1, got |-> {}, ub |-> FALSE]

\* if ((items = json_realloc(...)) == NULL) return -1;
ArrayPushFailed(a) == [val |-> a, rc |-> -1, got |-> {}, ub |-> FALSE]

\* json_array_push: ok is the outcome of the json_realloc it may make.
json_array_push(a, value, ids, ok) ==
    LET index == a.length
        capacity_threshold == a.capacity * JSON_ARRAY_CAPACITY_THRESHOLD
        grow == index >= capacity_threshold
        capacity == ArrayGrownCapacity(a.capacity)
    IN  IF grow /\ ~ok THEN ArrayPushFailed(a)
        ELSE LET b == IF grow
                      THEN [a EXCEPT !.items = IF a.items = 0 THEN ids[1] ELSE a.items,
                                     !.capacity = capacity,
                                     !.slots = a.slots \o Repeat(Uninit, capacity - a.capacity)]
                      ELSE a
                 got == IF grow /\ a.items = 0 THEN {ids[1]} ELSE {}
             IN  IF b.length < 0
                 THEN \* items[length++] = value stores in front of the buffer
                      [val |-> [b EXCEPT !.length = b.length + 1],
                       rc |-> 0, got |-> got, ub |-> TRUE]
                 ELSE [val |-> [b EXCEPT !.slots[b.length + 1] = value,
                                         !.length = b.length + 1],
                       rc |-> 0, got |-> got, ub |-> FALSE]

\* return index < length ? items[index] : NULL;  (Uninit stands for NULL; a
\* negative index reads in front of the buffer)
json_array_get(a, index) ==
    IF index < a.length
    THEN (IF index >= 0 THEN a.slots[index + 1] ELSE [type |-> "wild"])
    ELSE Uninit

\* The switch of json_array_remove on the type of the removed element.
ArrayRemoveSwitch(it) ==
    CASE it.type = "object" -> json_object_free(it)
      [] it.type = "array"  -> json_array_free(it)
      [] it.type = "string" -> json_string_free(it)
      [] OTHER              -> <<>>

\* Variant: the last element is moved into the hole.
ArrayShift_swap(a, index) ==
    [i \in 1..Len(a.slots) |->
        IF i - 1 = index /\ a.length >= 1 /\ a.length <= Len(a.slots)
        THEN a.slots[a.length] ELSE a.slots[i]]

\* for (i = index; i < length - 1; i++) items[i] = items[i + 1];
\* a store in front of the buffer lands outside the modelled slots.
ArrayShift(a, index) ==
    [i \in 1..Len(a.slots) |->
        IF i - 1 >= index /\ i - 1 < a.length - 1 THEN a.slots[i + 1] ELSE a.slots[i]]

\* The slot json_array_remove reads is items[index], whatever index is.
ArraySlotInBuffer(a, index) == a.items # 0 /\ index >= 0 /\ index < a.capacity

\* json_array_remove has no bounds check.  Reading a slot that lies outside
\* the buffer, was never written, or points at a released cell is undefined:
\* the call may abort, may take the default branch of the switch, or may
\* dispatch on the type a stale pointer still shows.
json_array_remove(a, index, lv) ==
    LET inbuf == ArraySlotInBuffer(a, index)
        slot  == IF inbuf THEN a.slots[index + 1] ELSE Uninit
        wild  == ~inbuf \/ ~IsValue(slot) \/ slot.cell \notin lv
        traces == IF ~wild THEN {ArrayRemoveSwitch(slot)}
                  ELSE IF a.items = 0 THEN {}
                  ELSE {<<>>} \cup (IF IsValue(slot) THEN {ArrayRemoveSwitch(slot)} ELSE {})
        done(tr) == [val |-> [a EXCEPT !.slots = ArrayShift(a, index), !.length = a.length - 1],
                     live |-> Release(lv, tr), freed |-> tr, crashed |-> FALSE, ub |-> wild,
                     oob |-> index < 0 \/ index >= a.length]
    IN  {done(tr) : tr \in traces}
        \cup (IF wild
              THEN {[val |-> a, live |-> lv, freed |-> <<>>, crashed |-> TRUE, ub |-> TRUE,
                     oob |-> TRUE]}
              ELSE {})

json_array_iter(a, index) ==
    IF index >= a.length THEN [more |-> 0, index |-> index]
    ELSE [more |-> 1, index |-> index + 1, value |-> a.slots[index + 1]]

\* while (json_array_iter(array, &iter, &value)) json_array_remove(array, iter--);
RECURSIVE json_array_clear(_, _, _)
json_array_clear(a, iter, lv) ==
    LET it == json_array_iter(a, iter)
    IN  IF it.more = 0
        THEN {[val |-> a, live |-> lv, freed |-> <<>>, crashed |-> FALSE, ub |-> FALSE,
               oob |-> FALSE]}
        ELSE UNION { IF r.crashed THEN {r}
                     ELSE { [s EXCEPT !.freed = r.freed \o s.freed, !.ub = s.ub \/ r.ub,
                                      !.oob = s.oob \/ r.oob] :
                            s \in json_array_clear(r.val, it.index - 1, r.live) } :
                     r \in json_array_remove(a, it.index, lv) }

\* ----------------------------------------------------------- json_object
\* Variant: the scan never finds the key.
ObjectScan_miss(o, key, i) == 0

\* The linear scan shared by set/get/has: the first slot in i..n_items whose
\* key equals key (0 when there is none), or -1 when the scan first reaches
\* a slot holding NULL, which it dereferences.
RECURSIVE ObjectScan(_, _, _)
ObjectScan(o, key, i) ==
    IF i > o.n_items THEN 0
    ELSE IF o.slots[i].rec = 0 THEN -1
    ELSE IF json__streq(o.slots[i].keystr, key) THEN i
    ELSE ObjectScan(o, key, i + 1)

\* json_object_set: ok = <<items realloc, entry alloc, key alloc>> succeed.
json_object_set(o, key, value, ids, ok) ==
    LET grow == o.n_items >= o.capacity * JSON_OBJECT_CAPACITY_THRESHOLD
        capacity == IF o.capacity # 0 THEN o.capacity * JSON_OBJECT_CAPACITY_MULTIPLIER
                    ELSE JSON_OBJECT_INITIAL_CAPACITY
        o1 == IF grow
              THEN [o EXCEPT !.items = IF o.items = 0 THEN ids[1] ELSE o.items,
                             !.capacity = capacity,
                             !.slots = o.slots \o Repeat(UninitEntry, capacity - o.capacity)]
              ELSE o
        got1 == IF grow /\ o.items = 0 THEN {ids[1]} ELSE {}
        ids1 == IF grow /\ o.items = 0 THEN Drop(ids, 1) ELSE ids
        hit == ObjectScan(o1, key, 1)
        idx == o1.n_items + 1
    IN  IF grow /\ ~ok[1]
        THEN [val |-> o, rc |-> -1, got |-> {}, freed |-> <<>>, crashed |-> FALSE]
        ELSE IF hit = -1
        THEN [val |-> o1, rc |-> -1, got |-> got1, freed |-> <<>>, crashed |-> TRUE]
        ELSE IF hit > 0
        THEN [val |-> [o1 EXCEPT !.slots[hit].value = value], rc |-> 0, got |-> got1,
              freed |-> json_free(o1.slots[hit].value), crashed |-> FALSE]
        ELSE IF ~ok[2]
        THEN [val |-> [o1 EXCEPT !.n_items = idx, !.slots[idx] = NullEntry],
              rc |-> -1, got |-> got1, freed |-> <<>>, crashed |-> FALSE]
        ELSE IF ~ok[3]
        THEN \* strncpy into the NULL key buffer
             [val |-> [o1 EXCEPT !.n_items = idx,
                                 !.slots[idx] = [rec |-> ids1[1], key |-> 0, keystr |-> <<>>,
                                                 value |-> Uninit]],
              rc |-> -1, got |-> got1 \cup {ids1[1]}, freed |-> <<>>, crashed |-> TRUE]
        ELSE [val |-> [o1 EXCEPT !.n_items = idx,
                                 !.slots[idx] = [rec |-> ids1[1], key |-> ids1[2],
                                                 keystr |-> SubSeq(key, 1, json__strlen(key)),
                                                 value |-> value]],
              rc |-> 0, got |-> got1 \cup {ids1[1], ids1[2]}, freed |-> <<>>,
              crashed |-> FALSE]

json_object_count(o) == o.n_items

json_object_has(o, key) == IF ObjectScan(o, key, 1) > 0 THEN 1 ELSE 0

json_object_get(o, key) ==
    LET hit == ObjectScan(o, key, 1)
    IN  IF hit > 0 THEN o.slots[hit].value ELSE Uninit

\* The switch of json_object_remove on the type of the removed value.
ObjectRemoveSwitch(v) ==
    CASE v.type = "array"  -> json_array_free(v)
      [] v.type = "object" -> json_object_free(v)
      [] v.type = "string" -> json_string_free(v)
      [] OTHER             -> <<v.cell>>

\* Variant: the next entry, not the last one, is moved into the hole.
ObjectSplice_next(o, i) ==
    [o EXCEPT !.slots[i] = IF i < o.n_items THEN o.slots[i + 1] ELSE UninitEntry,
              !.slots[o.n_items] = UninitEntry,
              !.n_items = o.n_items - 1]

\* if (i < n_items - 1) items[i] = items[n_items - 1];  n_items--;
\* the slot at the old n_items - 1 is dead afterwards: no loop reads it.
ObjectSplice(o, i) ==
    [o EXCEPT !.slots[i] = IF i < o.n_items THEN o.slots[o.n_items] ELSE UninitEntry,
              !.slots[o.n_items] = UninitEntry,
              !.n_items = o.n_items - 1]

\* The loop of json_object_remove from slot i on.  There is no return after
\* a removal, so the scan goes on with the next slot.  kb is the block the
\* key pointer points into (0 for a buffer of the caller): once that block
\* is released, every further comparison reads released memory and may
\* come out either way.
RECURSIVE ObjectRemoveLoop(_, _, _, _, _, _, _)
ObjectRemoveLoop(o, i, key, kb, lv, tr, ub) ==
    IF i > o.n_items
    THEN {[val |-> o, live |-> lv, freed |-> tr, crashed |-> FALSE, ub |-> ub]}
    ELSE IF o.slots[i].rec = 0
    THEN {[val |-> o, live |-> lv, freed |-> tr, crashed |-> TRUE, ub |-> TRUE]}
    ELSE LET e == o.slots[i]
             dangling == kb # 0 /\ kb \notin lv
             eqs == IF dangling THEN BOOLEAN ELSE {json__streq(e.keystr, key)}
             o2 == ObjectSplice(o, i)
             f == ObjectRemoveSwitch(e.value) \o <<e.key, e.rec>>
         IN  UNION { IF eq
                     THEN ObjectRemoveLoop(o2, i + 1, key, kb, Release(lv, f), tr \o f,
                                           ub \/ dangling)
                     ELSE ObjectRemoveLoop(o, i + 1, key, kb, lv, tr, ub \/ dangling) :
                     eq \in eqs }

json_object_remove(o, key, kb, lv) == ObjectRemoveLoop(o, 1, key, kb, lv, <<>>, FALSE)

json_object_iter(o, iter) ==
    IF iter >= o.n_items THEN [more |-> 0, iter |-> iter]
    ELSE [more |-> 1, iter |-> iter + 1, entry |-> o.slots[iter + 1]]

\* while (json_object_iter(...)) { json_object_remove(object, key); iter--; }
\* key points into the entry that the removal releases.
RECURSIVE json_object_clear(_, _, _)
json_object_clear(o, iter, lv) ==
    LET it == json_object_iter(o, iter)
    IN  IF it.more = 0
        THEN {[val |-> o, live |-> lv, freed |-> <<>>, crashed |-> FALSE, ub |-> FALSE]}
        ELSE IF it.entry.rec = 0
        THEN {[val |-> o, live |-> lv, freed |-> <<>>, crashed |-> TRUE, ub |-> TRUE]}
        ELSE UNION { IF r.crashed THEN {r}
                     ELSE { [s EXCEPT !.freed = r.freed \o s.freed, !.ub = s.ub \/ r.ub] :
                            s \in json_object_clear(r.val, it.iter - 1, r.live) } :
                     r \in json_object_remove(o, it.entry.keystr, it.entry.key, lv) }

\* ---------------------------------------------------------------- parser
\* struct json_parser, together with the heap of one json_decode call:
\* input/length/position/code are the fields of the struct; tail holds the
\* bytes that follow the input in memory; the failAt-th allocation request
\* of the call fails (0: none); blocks are handed out as 1, 2, 3, ...
NewParser(json, tail, length, failAt) ==
    [input |-> json, tail |-> tail, length |-> length, position |-> 0, code |-> "NONE",
     failAt |-> failAt, allocs |-> 0, next |-> 1, live |-> {}, freed |-> <<>>,
     ub |-> FALSE, oob |-> FALSE, crashed |-> FALSE]

NoParser == NewParser(<<>>, <<>>, 0, 0)

\* parser->input[i]
At(p, i) ==
    IF i < 0 THEN 0
    ELSE IF i < Len(p.input) THEN p.input[i + 1]
    ELSE IF i - Len(p.input) < Len(p.tail) THEN p.tail[i - Len(p.input) + 1]
    ELSE 0

JSON_PARSER_ERROR(p, code) == [p EXCEPT !.code = code]

json_alloc(p) ==
    IF p.allocs + 1 = p.failAt
    THEN [p |-> [p EXCEPT !.allocs = @ + 1], ptr |-> 0]
    ELSE [p |-> [p EXCEPT !.allocs = @ + 1, !.next = @ + 1, !.live = @ \cup {p.next}],
          ptr |-> p.next]

\* A successful json_realloc of a block resizes it and keeps its number.
json_realloc(p, ptr) ==
    IF ptr = 0 THEN json_alloc(p)
    ELSE IF p.allocs + 1 = p.failAt
    THEN [p |-> [p EXCEPT !.allocs = @ + 1], ptr |-> 0]
    ELSE [p |-> [p EXCEPT !.allocs = @ + 1], ptr |-> ptr]

\* free() of every block of a trace, in order; free(NULL) does nothing.
FreeTrace(p, tr) ==
    [p EXCEPT !.freed = @ \o tr, !.live = Release(@, tr), !.ub = @ \/ BadFree(p.live, tr)]

json__free(p, ptr) == IF ptr = 0 THEN p ELSE FreeTrace(p, <<ptr>>)

Fail(p) == [p |-> p, rc |-> -1, val |-> Uninit]

RECURSIVE json__streqn(_, _, _, _)
json__streqn(p, i, s2, limit) ==
    LET c1 == At(p, i)
        c2 == IF s2 = <<>> THEN 0 ELSE Head(s2)
    IN  IF c1 # 0 /\ c2 # 0 /\ c1 = c2 /\ limit > 1
        THEN json__streqn(p, i + 1, Tail(s2), limit - 1)
        ELSE c1 = c2

IsSpace(c) == c \in {32, 9, 10, 13}
IsDigit(c) == c >= 48 /\ c <= 57

RECURSIVE WhitespaceEnd(_, _)
WhitespaceEnd(p, pos) ==
    IF pos < p.length /\ IsSpace(At(p, pos)) THEN WhitespaceEnd(p, pos + 1) ELSE pos

json__parse_whitespace(p) == [p EXCEPT !.position = WhitespaceEnd(p, p.position)]

\* ---------------------------------------------------- json__decode_string
\* The value of a hex digit, -1 for any other byte.
HexDigit(c) ==
    IF c >= 48 /\ c <= 57 THEN c - 48
    ELSE IF c >= 97 /\ c <= 102 THEN c - 97 + 10
    ELSE IF c >= 65 /\ c <= 70 THEN c - 65 + 10
    ELSE -1

\* The four hex digits at i..i+3 as a number, -1 when one is no hex digit.
Hex4(p, i) ==
    LET d == [k \in 0..3 |-> HexDigit(At(p, i + k))]
    IN  IF \E k \in 0..3 : d[k] < 0 THEN -1
        ELSE d[0] * 4096 + d[1] * 256 + d[2] * 16 + d[3]

\* Variant: a code point behind U+FFFF is written with three bytes.
Utf8_three(code_point) ==
    IF code_point < 128 THEN <<code_point>>
    ELSE IF code_point < 2048
    THEN <<192 + (code_point \div 64), 128 + (code_point % 64)>>
    ELSE <<224 + (code_point \div 4096), 128 + ((code_point \div 64) % 64),
           128 + (code_point % 64)>>

\* The UTF-8 bytes written for a code point.
Utf8(code_point) ==
    IF code_point < 128 THEN <<code_point>>
    ELSE IF code_point < 2048
    THEN <<192 + (code_point \div 64), 128 + (code_point % 64)>>
    ELSE IF code_point < 65536
    THEN <<224 + (code_point \div 4096), 128 + ((code_point \div 64) % 64),
           128 + (code_point % 64)>>
    ELSE <<240 + (code_point \div 262144), 128 + ((code_point \div 4096) % 64),
           128 + ((code_point \div 64) % 64), 128 + (code_point % 64)>>

\* Variant: the escape of the slash is not known.
EscapedChar_noslash(c) ==
    CASE c = 34 -> 34 [] c = 92 -> 92 [] c = 98 -> 8 [] c = 102 -> 12
      [] c = 110 -> 10 [] c = 114 -> 13 [] c = 116 -> 9 [] OTHER -> -1

\* The byte a standard escape stands for, -1 for an invalid escape.
EscapedChar(c) ==
    CASE c = 34 -> 34 [] c = 92 -> 92 [] c = 47 -> 47 [] c = 98 -> 8 [] c = 102 -> 12
      [] c = 110 -> 10 [] c = 114 -> 13 [] c = 116 -> 9 [] OTHER -> -1

\* The string under construction: the block of its buffer, buffer_size and
\* the bytes written so far (buffer_length of them).
\* if (buffer_length + n >= buffer_size) { buffer_size *= 2; json_realloc }
\* then the n bytes are stored.
BufferPut(p, b, bytes) ==
    IF Len(b.bytes) + Len(bytes) >= b.size
    THEN LET r == json_realloc(p, b.blk)
         IN  IF r.ptr = 0
             THEN [ok |-> FALSE, p |-> JSON_PARSER_ERROR(json__free(r.p, b.blk), "MEMORY"),
                   b |-> b]
             ELSE [ok |-> TRUE, p |-> r.p,
                   b |-> [b EXCEPT !.size = b.size * 2, !.bytes = @ \o bytes]]
    ELSE [ok |-> TRUE, p |-> p, b |-> [b EXCEPT !.bytes = @ \o bytes]]

\* json__free(buffer); JSON_PARSER_ERROR(SYNTAX); return -1;
StringSyntax(p, b) == Fail(JSON_PARSER_ERROR(json__free(p, b.blk), "SYNTAX"))

RECURSIVE StringLoop(_, _, _, _)
StringLoop(p, end, b, cell) ==
    LET put(bytes, nend) ==
            LET w == BufferPut(p, b, bytes)
            IN  IF w.ok THEN StringLoop(w.p, nend, w.b, cell) ELSE Fail(w.p)
    IN
    IF end < p.length /\ At(p, end) # 34
    THEN IF At(p, end) = 92
         THEN IF end + 1 >= p.length THEN StringSyntax(p, b)
              ELSE IF At(p, end + 1) = 117
              THEN LET e == end + 2
                       code_point == Hex4(p, e)
                   IN  IF e + 3 >= p.length THEN StringSyntax(p, b)
                       ELSE IF code_point < 0 THEN StringSyntax(p, b)
                       ELSE IF code_point >= 55296 /\ code_point <= 56319
                       THEN LET h == e + 4
                                l == h + 2
                                low_surrogate == Hex4(p, l)
                            IN  IF h + 1 >= p.length \/ At(p, h) # 92 \/ At(p, h + 1) # 117
                                THEN StringSyntax(p, b)
                                ELSE IF l + 3 >= p.length THEN StringSyntax(p, b)
                                ELSE IF low_surrogate < 0 THEN StringSyntax(p, b)
                                ELSE IF low_surrogate < 56320 \/ low_surrogate > 57343
                                THEN StringSyntax(p, b)
                                ELSE put(Utf8(65536 + (code_point - 55296) * 1024
                                              + (low_surrogate - 56320)), l + 4)
                       ELSE put(Utf8(code_point), e + 4)
              ELSE LET escaped_char == EscapedChar(At(p, end + 1))
                   IN  IF escaped_char < 0 THEN StringSyntax(p, b)
                       ELSE put(<<escaped_char>>, end + 2)
         ELSE put(<<At(p, end)>>, end + 1)
    ELSE IF end = p.length THEN StringSyntax(p, b)
    ELSE [p |-> [p EXCEPT !.position = end + 1], rc |-> 0,
          val |-> [type |-> "string", cell |-> cell, buf |-> b.blk,
                   length |-> Len(b.bytes), value |-> b.bytes]]

\* cell is the block of the struct json_value that is filled in (0 for one
\* on the caller's stack).
json__decode_string(p, cell) ==
    LET a == json_alloc(p)
    IN  IF a.ptr = 0 THEN Fail(JSON_PARSER_ERROR(a.p, "MEMORY"))
        ELSE StringLoop(a.p, p.position + 1, [blk |-> a.ptr, size |-> 16, bytes |-> <<>>],
                        cell)

\* ---------------------------------------------------- json__decode_number
RECURSIVE ConsumeDigits(_, _)
ConsumeDigits(p, pos) ==
    IF pos < p.length /\ IsDigit(At(p, pos)) THEN ConsumeDigits(p, pos + 1) ELSE pos

json__parser_consume_digits(p) == [p EXCEPT !.position = ConsumeDigits(p, p.position)]

\* Natural numbers of any size, as the sequence of their decimal digits with
\* the most significant first; <<0>> is zero.  The products and quotients
\* work on the two halves of a number, low half first for the carry of a
\* product, high half first for the remainder of a quotient.
RECURSIVE BigMulCarry(_, _, _), BigDivRem(_, _, _), BigTimes(_, _, _)
BigTrim(N) ==
    IF \A i \in 1..Len(N) : N[i] = 0 THEN <<0>>
    ELSE SubSeq(N, CHOOSE i \in 1..Len(N) : N[i] # 0 /\ \A j \in 1..(i - 1) : N[j] = 0,
                Len(N))

\* The digits of a number below 10^8, without leading zeros.
SmallDigits(x) ==
    BigTrim([i \in 1..8 |-> (x \div <<10000000, 1000000, 100000, 10000, 1000, 100, 10, 1>>[i])
                             % 10])

BigHigh(N) == SubSeq(N, 1, Len(N) \div 2)

BigLow(N) == SubSeq(N, Len(N) \div 2 + 1, Len(N))

\* lo and then the high half: the product digits and the carry out of them.
BigMulJoin(hi, lo) == [digits |-> hi.digits \o lo.digits, carry |-> hi.carry]

BigMulHigh(N, k, lo) == BigMulJoin(BigMulCarry(BigHigh(N), k, lo.carry), lo)

\* The Len(N) low digits of N * k + carry, and the carry out of them.
BigMulCarry(N, k, carry) ==
    IF Len(N) = 1
    THEN [digits |-> <<(N[1] * k + carry) % 10>>, carry |-> (N[1] * k + carry) \div 10]
    ELSE CHOOSE m \in {BigMulHigh(N, k, lo) : lo \in {BigMulCarry(BigLow(N), k, carry)}} : TRUE

BigMulDone(m) == BigTrim(SmallDigits(m.carry) \o m.digits)

\* N * k for k below 10^6
BigMul(N, k) == BigMulDone(BigMulCarry(N, k, 0))

BigSucc(N) == BigMulDone(BigMulCarry(N, 1, 1))

BigDivJoin(hi, lo) == [q |-> hi.q \o lo.q, r |-> lo.r]

BigDivLow(N, k, hi) == BigDivJoin(hi, BigDivRem(BigLow(N), k, hi.r))

\* Quotient (Len(N) digits) and remainder of (rem * 10^Len(N) + N) / k.
BigDivRem(N, k, rem) ==
    IF Len(N) = 1
    THEN [q |-> <<(rem * 10 + N[1]) \div k>>, r |-> (rem * 10 + N[1]) % k]
    ELSE BigDivLow(N, k, BigDivRem(BigHigh(N), k, rem))

BigDivDone(d) == [q |-> BigTrim(d.q), r |-> d.r]

\* Quotient and remainder of N / k for k below 10^6
BigDiv(N, k) == BigDivDone(BigDivRem(N, k, 0))

BigLess(A, B) ==
    \/ Len(A) < Len(B)
    \/ /\ Len(A) = Len(B)
       /\ \E i \in 1..Len(A) : A[i] < B[i] /\ \A j \in 1..(i - 1) : A[j] = B[j]

\* N * k^n, for k = 2 or k = 5, sixteen, four or eight, two and one factor
\* at a time.
BigTimes(N, k, n) ==
    IF n <= 0 \/ N = <<0>> THEN N
    ELSE IF k = 2 /\ n >= 16 THEN BigTimes(BigMul(N, 65536), k, n - 16)
    ELSE IF k = 2 /\ n >= 4 THEN BigTimes(BigMul(N, 16), k, n - 4)
    ELSE IF k = 5 /\ n >= 8 THEN BigTimes(BigMul(N, 390625), k, n - 8)
    ELSE IF k = 5 /\ n >= 2 THEN BigTimes(BigMul(N, 25), k, n - 2)
    ELSE BigTimes(BigMul(N, k), k, n - 1)

BigOdd(N) == N[Len(N)] % 2 = 1

\* A double is (-1)^neg * man * 2^exp with man odd and below 2^DBL_MANT_DIG,
\* or man zero and exp 0.  The exponent range of the format is left out:
\* the numbers met here neither overflow nor are subnormal.
DBL_MANT_DIG == 53

TwoToMant == BigTimes(<<1>>, 2, DBL_MANT_DIG)

TwoToMantPlus1 == BigTimes(<<1>>, 2, DBL_MANT_DIG + 1)

TwoToMantPlus5 == BigTimes(<<1>>, 2, DBL_MANT_DIG + 5)

TwoToMantPlus17 == BigTimes(<<1>>, 2, DBL_MANT_DIG + 17)

RECURSIVE Double(_, _, _), HalveToMant(_, _, _), DivFives(_, _, _)
Double(neg, M, e) ==
    IF M = <<0>> THEN [neg |-> neg, man |-> <<0>>, exp |-> 0]
    ELSE IF BigOdd(M) THEN [neg |-> neg, man |-> M, exp |-> e]
    ELSE IF BigDiv(M, 65536).r = 0 THEN Double(neg, BigDiv(M, 65536).q, e + 16)
    ELSE IF BigDiv(M, 16).r = 0 THEN Double(neg, BigDiv(M, 16).q, e + 4)
    ELSE Double(neg, BigDiv(M, 2).q, e + 1)

\* T halved h more times until it has DBL_MANT_DIG + 1 bits; sticky tells
\* whether anything but zeros was cut off.
HalveToMant(T, h, sticky) ==
    IF BigLess(T, TwoToMantPlus1) \/ (sticky /\ h < 0)
    THEN [T |-> T, h |-> h, sticky |-> sticky]
    ELSE IF BigLess(T, TwoToMantPlus5)
    THEN HalveToMant(BigDiv(T, 2).q, h + 1, sticky \/ BigDiv(T, 2).r # 0)
    ELSE IF BigLess(T, TwoToMantPlus17)
    THEN HalveToMant(BigDiv(T, 16).q, h + 4, sticky \/ BigDiv(T, 16).r # 0)
    ELSE HalveToMant(BigDiv(T, 65536).q, h + 16, sticky \/ BigDiv(T, 65536).r # 0)

\* T divided by 5^k.
DivFives(T, k, sticky) ==
    IF k = 0 \/ T = <<0>> \/ (sticky /\ k < 0) THEN [T |-> T, sticky |-> sticky]
    ELSE IF k >= 8
    THEN DivFives(BigDiv(T, 390625).q, k - 8, sticky \/ BigDiv(T, 390625).r # 0)
    ELSE IF k >= 2
    THEN DivFives(BigDiv(T, 25).q, k - 2, sticky \/ BigDiv(T, 25).r # 0)
    ELSE DivFives(BigDiv(T, 5).q, k - 1, sticky \/ BigDiv(T, 5).r # 0)

\* Round to nearest, ties to even: t.T holds the mantissa and one more bit.
RoundNearest(neg, t, e) ==
    Double(neg,
           IF BigOdd(t.T) /\ (t.sticky \/ BigOdd(BigDiv(t.T, 2).q))
           THEN BigSucc(BigDiv(t.T, 2).q) ELSE BigDiv(t.T, 2).q,
           t.h + e + 1)

RoundScaled(neg, d, e) == RoundNearest(neg, HalveToMant(d.T, 0, d.sticky), e)

\* The double nearest to N * 10^q (N in decimal digits): an integer below
\* 2^DBL_MANT_DIG is itself a double; anything else is scaled by a power
\* of two that leaves more than DBL_MANT_DIG + 1 bits, and rounded.
NearestDouble(neg, N, q) ==
    IF N = <<0>> THEN Double(neg, N, 0)
    ELSE IF q >= 0 /\ BigLess(N \o Repeat(0, q), TwoToMant)
    THEN Double(neg, N \o Repeat(0, q), 0)
    ELSE IF q >= 0
    THEN RoundScaled(neg, [T |-> BigTimes(N \o Repeat(0, q), 2, 60), sticky |-> FALSE], -60)
    ELSE RoundScaled(neg, DivFives(BigTimes(N, 2, 60 - 3 * q), -q, FALSE), -60 + 4 * q)

\* strtod reads memory up to the first byte that cannot continue a number,
\* whatever parser->length is.
RECURSIVE DigitsEnd(_, _), HexEnd(_, _), DigitsValue(_, _, _, _)
DigitsEnd(p, i) == IF IsDigit(At(p, i)) THEN DigitsEnd(p, i + 1) ELSE i
HexEnd(p, i) == IF HexDigit(At(p, i)) >= 0 THEN HexEnd(p, i + 1) ELSE i

\* The decimal number the digits at i..j-1 spell after the number acc.
DigitsValue(p, i, j, acc) ==
    IF i >= j THEN acc ELSE DigitsValue(p, i + 1, j, acc * 10 + (At(p, i) - 48))

\* The digits at i..j-1.
DigitsAt(p, i, j) == [k \in 1..(j - i) |-> At(p, i + k - 1) - 48]

\* The index behind an optional sign at i.
SignEnd(p, i) == IF At(p, i) \in {45, 43} THEN i + 1 ELSE i

\* The index behind an optional fraction at i ("." and any digits).
FractionEnd(p, i) == IF At(p, i) = 46 THEN DigitsEnd(p, i + 1) ELSE i

\* The index behind an optional exponent at i: the letter mark, an optional
\* sign and at least one digit.
ExponentEnd(p, i, mark) ==
    IF At(p, i) \in mark /\ IsDigit(At(p, SignEnd(p, i + 1)))
    THEN DigitsEnd(p, SignEnd(p, i + 1)) ELSE i

\* The value of the exponent that ends at d3 (0 when there is none at d2).
ExponentValue(p, d2, d3) ==
    IF d3 = d2 THEN 0
    ELSE (IF At(p, d2 + 1) = 45 THEN -1 ELSE 1) * DigitsValue(p, SignEnd(p, d2 + 1), d3, 0)

\* The decimal form: digits s..d1-1, fraction up to d2, exponent up to d3.
StrtodDecimal(p, start, s, d1, d2, d3) ==
    IF d1 = s /\ d2 <= d1 + 1
    THEN [endptr |-> start, number |-> Double(FALSE, <<0>>, 0)]
    ELSE [endptr |-> d3,
          number |-> NearestDouble(At(p, start) = 45,
                                   BigTrim(DigitsAt(p, s, d1) \o DigitsAt(p, d1 + 1, d2)),
                                   ExponentValue(p, d2, d3)
                                     - (IF d2 > d1 THEN d2 - d1 - 1 ELSE 0))]

StrtodFraction(p, start, s, d1, d2) ==
    StrtodDecimal(p, start, s, d1, d2,
                  IF d1 = s /\ d2 <= d1 + 1 THEN d2 ELSE ExponentEnd(p, d2, {101, 69}))

StrtodDigits(p, start, s, d1) == StrtodFraction(p, start, s, d1, FractionEnd(p, d1))

\* The hexadecimal form, whose value no caller gets to use.
StrtodHex(p, h2) ==
    [endptr |-> ExponentEnd(p, h2, {112, 80}), number |-> Double(FALSE, <<0>>, 0)]

StrtodAt(p, start, s) ==
    IF At(p, s) = 48 /\ At(p, s + 1) \in {120, 88} /\ HexDigit(At(p, s + 2)) >= 0
    THEN StrtodHex(p, IF At(p, HexEnd(p, s + 2)) = 46
                      THEN HexEnd(p, HexEnd(p, s + 2) + 1) ELSE HexEnd(p, s + 2))
    ELSE StrtodDigits(p, start, s, DigitsEnd(p, s))

\* strtod(input + start, &endptr): endptr as an index and the value read.
\* The text starts with a digit or with '-' wherever it is called from, so
\* the inf and nan forms are left out.
strtod(p, start) == StrtodAt(p, start, SignEnd(p, start))

InvalidNumber(p) == Fail(JSON_PARSER_ERROR(p, "INVALID_NUMBER"))

Advance(p, n) == [p EXCEPT !.position = @ + n]

InBounds(p) == p.position < p.length

\* Variant: the end strtod reports is not compared with the cursor.
NumberValue_unchecked(p, d, cell) ==
    [p |-> p, rc |-> 0, val |-> [type |-> "number", cell |-> cell, number |-> d.number]]

\* if (endptr != input + position) ... return -1;  return 0;
NumberValue(p, d, cell) ==
    IF d.endptr # p.position THEN InvalidNumber(p)
    ELSE [p |-> p, rc |-> 0, val |-> [type |-> "number", cell |-> cell, number |-> d.number]]

NumberEnd(p, start, cell) ==
    IF start = p.position THEN InvalidNumber(p)
    ELSE NumberValue(p, strtod(p, start), cell)

\* behind 'e' or 'E' and an optional sign
NumberExponentDigits(p, start, cell) ==
    IF InBounds(p) /\ IsDigit(At(p, p.position))
    THEN NumberEnd(json__parser_consume_digits(p), start, cell)
    ELSE InvalidNumber(p)

NumberExponentSign(p, start, cell) ==
    NumberExponentDigits(IF InBounds(p) /\ At(p, p.position) \in {45, 43}
                         THEN Advance(p, 1) ELSE p, start, cell)

NumberExponent(p, start, cell) ==
    IF InBounds(p) /\ At(p, p.position) \in {101, 69}
    THEN NumberExponentSign(Advance(p, 1), start, cell)
    ELSE NumberEnd(p, start, cell)

\* behind '.'
NumberFractionDigits(p, start, cell) ==
    IF InBounds(p) /\ IsDigit(At(p, p.position))
    THEN NumberExponent(json__parser_consume_digits(p), start, cell)
    ELSE InvalidNumber(p)

NumberFraction(p, start, cell) ==
    IF InBounds(p) /\ At(p, p.position) = 46
    THEN NumberFractionDigits(Advance(p, 1), start, cell)
    ELSE NumberExponent(p, start, cell)

\* behind an optional '-'
NumberInteger(p, start, cell) ==
    IF InBounds(p) /\ At(p, p.position) = 48
    THEN NumberFraction(Advance(p, 1), start, cell)
    ELSE IF InBounds(p) /\ At(p, p.position) >= 49 /\ At(p, p.position) <= 57
    THEN NumberFraction(json__parser_consume_digits(p), start, cell)
    ELSE InvalidNumber(p)

json__decode_number(p, cell) ==
    NumberInteger(IF InBounds(p) /\ At(p, p.position) = 45 THEN Advance(p, 1) ELSE p,
                  p.position, cell)

\* ------------------------------------------------- arrays, objects, values
RECURSIVE json__decode_value(_, _), ArrayLoop(_, _), ObjectLoop(_, _)

\* if (position < length && input[position] == ',') position++;
SkipComma(p) ==
    IF InBounds(p) /\ At(p, p.position) = 44 THEN Advance(p, 1) ELSE p

\* json_array_free(array); return -1;
ArrayFail(p, a) == Fail(FreeTrace(p, json_array_free(a)))

\* json_array_push with r the outcome of the json_realloc it makes when it
\* has to grow.  The decoder does not look at the result, so an item whose
\* push failed stays allocated and out of the array.
ArrayPushed(r, a, item) ==
    ArrayLoop(SkipComma(json__parse_whitespace(r.p)),
              json_array_push(a, item, <<r.ptr>>, r.ptr # 0).val)

\* item is the block of the new element, r what json__decode_value made of it.
ArrayItem(r, a, item) ==
    IF r.p.crashed THEN r
    ELSE IF r.rc # 0 THEN ArrayFail(json__free(r.p, item), a)
    ELSE ArrayPushed(IF a.length >= a.capacity * JSON_ARRAY_CAPACITY_THRESHOLD
                     THEN json_realloc(r.p, a.items) ELSE [p |-> r.p, ptr |-> a.items],
                     a, r.val)

\* i is the outcome of the json_alloc of the element.
ArrayAlloc(i, a) ==
    IF i.ptr = 0 THEN ArrayFail(JSON_PARSER_ERROR(i.p, "MEMORY"), a)
    ELSE ArrayItem(json__decode_value(i.p, i.ptr), a, i.ptr)

\* The while loop of json__decode_array and what follows it.
ArrayLoop(p, a) ==
    IF InBounds(p) /\ At(p, p.position) # 93
    THEN ArrayAlloc(json_alloc(json__parse_whitespace(p)), a)
    ELSE IF p.position >= p.length \/ At(p, p.position) # 93
    THEN ArrayFail(JSON_PARSER_ERROR(p, "SYNTAX"), a)
    ELSE [p |-> Advance(p, 1), rc |-> 0, val |-> a]

json__decode_array(p, cell) ==
    IF p.length - p.position < 1 THEN Fail(JSON_PARSER_ERROR(p, "EOF"))
    ELSE IF At(p, p.position) # 91 THEN Fail(JSON_PARSER_ERROR(p, "SYNTAX"))
    ELSE IF p.position + 1 < p.length /\ At(p, p.position + 1) = 93
    THEN [p |-> Advance(p, 2), rc |-> 0, val |-> json_array_init(cell)]
    ELSE ArrayLoop(Advance(p, 1), json_array_init(cell))

\* json__free(key.string.value); JSON_PARSER_ERROR(code); return -1;
ObjectFail(p, kb, code) == Fail(JSON_PARSER_ERROR(json__free(p, kb), code))

\* s is what json_object_set (not) did, p the heap after its requests.
ObjectStored(p, s, kb, value) ==
    IF s.crashed THEN Fail([p EXCEPT !.crashed = TRUE])
    ELSE IF s.rc # 0 THEN ObjectFail(json__free(FreeTrace(p, s.freed), value), kb, "MEMORY")
    ELSE ObjectLoop(SkipComma(json__parse_whitespace(json__free(FreeTrace(p, s.freed), kb))),
                    s.val)

\* json_object_set as the decoder calls it, with the outcomes of its three
\* allocation requests: r1 for the item buffer, r2 for the entry, r3 for the
\* copy of the key.
ObjectSetKey(r1, r2, r3, o, k, value) ==
    ObjectStored(r3.p,
                 json_object_set(o, k.value \o <<0>>, value,
                                 IF o.items = 0 THEN <<r1.ptr, r2.ptr, r3.ptr>>
                                 ELSE <<r2.ptr, r3.ptr>>,
                                 <<r1.ptr # 0, r2.ptr # 0, r3.ptr # 0>>),
                 k.buf, value.cell)

ObjectSetEntry(r1, r2, o, k, value) ==
    ObjectSetKey(r1, r2, IF r2.ptr # 0 THEN json_alloc(r2.p) ELSE [p |-> r2.p, ptr |-> 0],
                 o, k, value)

ObjectSetItems(r1, o, k, value) ==
    ObjectSetEntry(r1, IF r1.ptr # 0 /\ ObjectScan(o, k.value \o <<0>>, 1) = 0
                       THEN json_alloc(r1.p) ELSE [p |-> r1.p, ptr |-> 0],
                   o, k, value)

\* r is what json__decode_value made of the block value.
ObjectValue(r, o, k, value) ==
    IF r.p.crashed THEN r
    ELSE IF r.rc # 0 THEN ObjectFail(json__free(r.p, value), k.buf, "SYNTAX")
    ELSE ObjectSetItems(IF o.n_items >= o.capacity * JSON_OBJECT_CAPACITY_THRESHOLD
                        THEN json_realloc(r.p, o.items) ELSE [p |-> r.p, ptr |-> o.items],
                        o, k, r.val)

\* v is the outcome of the json_alloc of the value.
ObjectAlloc(v, o, k) ==
    IF v.ptr = 0 THEN ObjectFail(v.p, k.buf, "MEMORY")
    ELSE ObjectValue(json__decode_value(json__parse_whitespace(v.p), v.ptr), o, k, v.ptr)

\* p is behind the key and the whitespace after it.
ObjectColon(p, o, k) ==
    IF p.position >= p.length \/ At(p, p.position) # 58 THEN ObjectFail(p, k.buf, "SYNTAX")
    ELSE ObjectAlloc(json_alloc(Advance(p, 1)), o, k)

\* k is what json__decode_string made of the key.
ObjectKey(k, o) ==
    IF k.rc # 0 THEN Fail(JSON_PARSER_ERROR(k.p, "SYNTAX"))
    ELSE ObjectColon(json__parse_whitespace(k.p), o, k.val)

\* if (input[position] != '"'), read whatever position is.
ObjectEntry(p, o) ==
    IF At(p, p.position) # 34
    THEN Fail(JSON_PARSER_ERROR([p EXCEPT !.oob = @ \/ ~InBounds(p)], "SYNTAX"))
    ELSE ObjectKey(json__decode_string([p EXCEPT !.oob = @ \/ ~InBounds(p)], 0), o)

\* The while loop of json__decode_object and what follows it.  No failure
\* path releases the entries the object already holds or its item buffer.
ObjectLoop(p, o) ==
    IF InBounds(p) /\ At(p, p.position) # 125
    THEN ObjectEntry(json__parse_whitespace(p), o)
    ELSE IF p.position >= p.length \/ At(p, p.position) # 125
    THEN Fail(JSON_PARSER_ERROR(p, "SYNTAX"))
    ELSE [p |-> Advance(p, 1), rc |-> 0, val |-> o]

json__decode_object(p, cell) ==
    ObjectLoop(json__parse_whitespace(Advance(p, 1)), json_object_init(cell))

True == <<116, 114, 117, 101, 0>>
False == <<102, 97, 108, 115, 101, 0>>
Null == <<110, 117, 108, 108, 0>>

\* if (rc != 0 && parser->error.code == JSON_ERROR_NONE) SYNTAX;  return rc;
ValueDone(r) ==
    IF r.rc # 0 /\ r.p.code = "NONE" THEN [r EXCEPT !.p = JSON_PARSER_ERROR(r.p, "SYNTAX")]
    ELSE r

Literal(p, v, n) == [p |-> Advance(p, n), rc |-> 0, val |-> v]

\* c = input[position], read whatever position is.
ValueAt(p, c, cell) ==
    IF c = 34 THEN ValueDone(json__decode_string(p, cell))
    ELSE IF c = 91 THEN ValueDone(json__decode_array(p, cell))
    ELSE IF c = 123 THEN ValueDone(json__decode_object(p, cell))
    ELSE IF json__streqn(p, p.position, True, 4)
    THEN Literal(p, [type |-> "boolean", cell |-> cell, number |-> 1], 4)
    ELSE IF json__streqn(p, p.position, False, 4)
    THEN Literal(p, [type |-> "boolean", cell |-> cell, number |-> 0], 5)
    ELSE IF json__streqn(p, p.position, Null, 4)
    THEN Literal(p, [type |-> "null", cell |-> cell], 4)
    ELSE ValueDone(json__decode_number(p, cell))

json__decode_value(p, cell) ==
    ValueAt([p EXCEPT !.oob = @ \/ ~InBounds(p)], At(p, p.position), cell)

\* The value json_decode_with_length returns (Uninit for NULL) and the
\* parser and heap it leaves.
DecodeDone(r, value) ==
    IF r.p.crashed THEN r
    ELSE IF r.rc # 0 THEN Fail(json__free(r.p, value))
    ELSE r

DecodeAlloc(a) ==
    IF a.ptr = 0 THEN Fail(a.p) ELSE DecodeDone(json__decode_value(a.p, a.ptr), a.ptr)

json_decode_with_length(json, tail, length, failAt) ==
    DecodeAlloc(json_alloc(NewParser(json, tail, length, failAt)))

\* json_decode reads a zero-terminated string.
json_decode(json, failAt) ==
    json_decode_with_length(json, <<0>>, json__strlen(json \o <<0>>), failAt)

\* ------------------------------------------------------------ json_encode
\* snprintf(buffer, sizeof(buffer), "%.17g", x): the exact decimal expansion
\* of the double, rounded to PRECISION significant digits (nearest, ties to
\* even), printed the way %g does.
PRECISION == 17

\* The decimal digits of man * 2^exp and the power of ten they are scaled by.
ExactDecimal(x) ==
    IF x.exp >= 0 THEN [digits |-> BigTimes(x.man, 2, x.exp), q |-> 0]
    ELSE [digits |-> BigTimes(x.man, 5, -x.exp), q |-> x.exp]

\* Whether the digits cut off make the kept ones round up.
RoundsUp(head, rest) ==
    \/ rest[1] > 5
    \/ /\ rest[1] = 5
       /\ \/ \E i \in 2..Len(rest) : rest[i] # 0
          \/ head[Len(head)] % 2 = 1

\* Variant: one significant digit less is kept.
RoundDecimal_short(d) ==
    IF Len(d.digits) <= PRECISION - 1 THEN d
    ELSE [digits |-> IF RoundsUp(SubSeq(d.digits, 1, PRECISION - 1),
                                 SubSeq(d.digits, PRECISION, Len(d.digits)))
                     THEN BigSucc(SubSeq(d.digits, 1, PRECISION - 1))
                     ELSE SubSeq(d.digits, 1, PRECISION - 1),
          q |-> d.q + Len(d.digits) - PRECISION + 1]

\* The digits rounded to PRECISION significant digits.
RoundDecimal(d) ==
    IF Len(d.digits) <= PRECISION THEN d
    ELSE [digits |-> IF RoundsUp(SubSeq(d.digits, 1, PRECISION),
                                 SubSeq(d.digits, PRECISION + 1, Len(d.digits)))
                     THEN BigSucc(SubSeq(d.digits, 1, PRECISION))
                     ELSE SubSeq(d.digits, 1, PRECISION),
          q |-> d.q + Len(d.digits) - PRECISION]

\* %g removes the trailing zeros.
LastNonZero(digits) ==
    IF \A i \in 1..Len(digits) : digits[i] = 0 THEN 1
    ELSE CHOOSE i \in 1..Len(digits) :
             digits[i] # 0 /\ \A j \in (i + 1)..Len(digits) : digits[j] = 0

StripZeros(d) ==
    [digits |-> SubSeq(d.digits, 1, LastNonZero(d.digits)),
     q |-> d.q + Len(d.digits) - LastNonZero(d.digits)]

\* Digits as characters.
Chars(digits) == [i \in 1..Len(digits) |-> digits[i] + 48]

\* The exponent of the e-style: a sign and at least two digits.
ExponentChars(X) ==
    <<101, IF X < 0 THEN 45 ELSE 43>>
    \o (LET a == IF X < 0 THEN -X ELSE X
        IN  IF a < 100 THEN <<48 + (a \div 10), 48 + (a % 10)>>
            ELSE <<48 + (a \div 100), 48 + ((a \div 10) % 10), 48 + (a % 10)>>)

\* d is rounded and stripped; X is the decimal exponent of its first digit.
FormatG(d, X) ==
    IF X < -4 \/ X >= PRECISION
    THEN <<d.digits[1] + 48>>
         \o (IF Len(d.digits) > 1 THEN <<46>> \o Chars(Tail(d.digits)) ELSE <<>>)
         \o ExponentChars(X)
    ELSE IF d.q >= 0 THEN Chars(d.digits) \o Repeat(48, d.q)
    ELSE IF X >= 0
    THEN Chars(SubSeq(d.digits, 1, X + 1)) \o <<46>>
         \o Chars(SubSeq(d.digits, X + 2, Len(d.digits)))
    ELSE <<48, 46>> \o Repeat(48, -X - 1) \o Chars(d.digits)

FormatRounded(d) == FormatG(d, Len(d.digits) - 1 + d.q)

snprintf_17g(x) ==
    (IF x.neg THEN <<45>> ELSE <<>>)
    \o (IF x.man = <<0>> THEN <<48>>
        ELSE FormatRounded(StripZeros(RoundDecimal(ExactDecimal(x)))))

\* What json_encode returns: the block of the text (0 for NULL), the text in
\* front of its terminating zero, and the heap h it leaves.  The heap is a
\* parser record of which only the allocation fields are used.
Encoded(h, ptr, text) == [p |-> h, ptr |-> ptr, text |-> text]

\* if ((ptr = json_alloc(length + 1)) == NULL) return NULL;  copy;  return ptr;
EncodeCopy(a, text) == IF a.ptr = 0 THEN Encoded(a.p, 0, <<>>) ELSE Encoded(a.p, a.ptr, text)

\* str[k] of a string value: its bytes, the terminating zero, and behind it
\* whatever the memory holds (junk).
StrByte(v, k, junk) ==
    IF k < v.length THEN v.value[k + 1] ELSE IF k = v.length THEN 0 ELSE junk

\* (b & 0xC0) == 0x80
IsContinuation(b) == b \div 64 = 2

ReplacementEscape == <<92, 117, 70, 70, 70, 68>>

HexChar(n) == IF n < 10 THEN 48 + n ELSE 55 + n

\* The two-character escape of c, <<>> when c has none.
ShortEscape(c) ==
    CASE c \in {34, 92, 47} -> <<92, c>>
      [] c = 8  -> <<92, 98>>
      [] c = 12 -> <<92, 102>>
      [] c = 10 -> <<92, 110>>
      [] c = 13 -> <<92, 114>>
      [] c = 9  -> <<92, 116>>
      [] OTHER  -> <<>>

\* The number of bytes the lead byte c announces (0: no lead byte).
SequenceLength(c) ==
    IF c \div 32 = 6 THEN 2 ELSE IF c \div 16 = 14 THEN 3 ELSE IF c \div 8 = 30 THEN 4 ELSE 0

\* bytes = &str[i], and the test reads bytes[i + 1] .. bytes[i + n - 1]:
\* the bytes of str at 2i + 1 .. 2i + n - 1.
SequenceValid(v, i, n, junk) ==
    /\ n > 0
    /\ ~(i + n - 1 >= v.length)
    /\ \A k \in 1..(n - 1) : IsContinuation(StrByte(v, i + i + k, junk))

\* What one turn of the loop of json__encode_string at index i appends, and
\* how many bytes of str it consumes.
EncodeStep(v, i, c, junk) ==
    IF ShortEscape(c) # <<>> THEN [out |-> ShortEscape(c), n |-> 1]
    ELSE IF c < 32
    THEN [out |-> <<92, 117, 48, 48, HexChar((c \div 16) % 16), HexChar(c % 16)>>, n |-> 1]
    ELSE IF c < 128 THEN [out |-> <<c>>, n |-> 1]
    ELSE IF SequenceValid(v, i, SequenceLength(c), junk)
    THEN [out |-> [k \in 1..SequenceLength(c) |-> StrByte(v, i + k - 1, junk)],
          n |-> SequenceLength(c)]
    ELSE [out |-> ReplacementEscape, n |-> 1]

RECURSIVE EncodeChars(_, _, _)
EncodeChars(v, i, junk) ==
    IF i >= v.length THEN <<>>
    ELSE EncodeStep(v, i, StrByte(v, i, junk), junk).out
         \o EncodeChars(v, i + EncodeStep(v, i, StrByte(v, i, junk), junk).n, junk)

\* result = json_realloc(buffer, pos + 1);  return result ? result : buffer;
EncodeStringDone(r, buffer, text) == Encoded(r.p, buffer, text)

json__encode_string(h, v, junk) ==
    IF json_alloc(h).ptr = 0 THEN Encoded(json_alloc(h).p, 0, <<>>)
    ELSE EncodeStringDone(json_realloc(json_alloc(h).p, json_alloc(h).ptr),
                          json_alloc(h).ptr, <<34>> \o EncodeChars(v, 0, junk) \o <<34>>)

RECURSIVE json_encode(_, _, _), EncodeArrayLoop(_, _, _, _, _), EncodeObjectLoop(_, _, _, _, _)

\* The text under construction is b: its block, buffer_size and the bytes
\* written.  A write at an index >= buffer_size, text being what the buffer
\* holds after the write:
Overrun(h, b, text) == [h EXCEPT !.oob = @ \/ Len(text) > b.size]

\* The closing bracket and the terminating zero are written without a test
\* of buffer_size.
EncodeClose(h, b, close) ==
    Encoded(Overrun(h, b, b.text \o <<close, 0>>), b.blk, b.text \o <<close>>)

\* The item text r is copied behind a comma (if i > 0) and released.
EncodeArrayAppend(h, v, i, b, r, junk) ==
    EncodeArrayLoop(json__free(Overrun(h, b, b.text \o (IF i > 1 THEN <<44>> ELSE <<>>)
                                                   \o r.text),
                               r.ptr),
                    v, i + 1,
                    [b EXCEPT !.text = @ \o (IF i > 1 THEN <<44>> ELSE <<>>) \o r.text], junk)

\* g is the outcome of the json_realloc to needed * 2 bytes.
EncodeArrayGrown(g, v, i, b, r, needed, junk) ==
    IF g.ptr = 0 THEN Encoded(json__free(json__free(g.p, b.blk), r.ptr), 0, <<>>)
    ELSE EncodeArrayAppend(g.p, v, i, [b EXCEPT !.size = needed * 2], r, junk)

EncodeArrayNeeded(v, i, b, r, needed, junk) ==
    IF needed > b.size
    THEN EncodeArrayGrown(json_realloc(r.p, b.blk), v, i, b, r, needed, junk)
    ELSE EncodeArrayAppend(r.p, v, i, b, r, junk)

\* r is what json_encode made of the item at i.
EncodeArrayItem(r, v, i, b, junk) ==
    IF r.p.crashed THEN r
    ELSE IF r.ptr = 0 THEN Encoded(json__free(r.p, b.blk), 0, <<>>)
    ELSE EncodeArrayNeeded(v, i, b, r,
                           Len(b.text) + json__strlen(r.text \o <<0>>)
                             + (IF i > 1 THEN 1 ELSE 0) + 1,
                           junk)

\* The for loop of json__encode_array; i counts from 1.
EncodeArrayLoop(h, v, i, b, junk) ==
    IF i > v.length THEN EncodeClose(h, b, 93)
    ELSE EncodeArrayItem(json_encode(h, v.slots[i], junk), v, i, b, junk)

\* json__encode_array from its json_alloc(buffer_size) on, a being the
\* outcome of the request.
EncodeArraySized(a, v, junk, buffer_size) ==
    IF a.ptr = 0 THEN Encoded(a.p, 0, <<>>)
    ELSE EncodeArrayLoop(a.p, v, 1, [blk |-> a.ptr, size |-> buffer_size, text |-> <<91>>],
                         junk)

\* buffer_size = 512;
EncodeArrayAlloc(a, v, junk) == EncodeArraySized(a, v, junk, 512)

json__encode_array(h, v, junk) == EncodeArrayAlloc(json_alloc(h), v, junk)

\* The key between quotation marks, a colon, the value text r (released), and
\* a comma unless the entry is the last.
EncodeObjectAppend(h, o, i, b, r, junk) ==
    EncodeObjectLoop(json__free(Overrun(h, b, b.text \o <<34>> \o o.slots[i].keystr
                                                    \o <<34, 58>> \o r.text
                                                    \o (IF i < o.n_items THEN <<44>>
                                                        ELSE <<>>)),
                                r.ptr),
                     o, i + 1,
                     [b EXCEPT !.text = @ \o <<34>> \o o.slots[i].keystr \o <<34, 58>>
                                          \o r.text
                                          \o (IF i < o.n_items THEN <<44>> ELSE <<>>)],
                     junk)

EncodeObjectGrown(g, o, i, b, r, needed, junk) ==
    IF g.ptr = 0 THEN Encoded(json__free(json__free(g.p, b.blk), r.ptr), 0, <<>>)
    ELSE EncodeObjectAppend(g.p, o, i, [b EXCEPT !.size = needed * 2], r, junk)

EncodeObjectNeeded(o, i, b, r, needed, junk) ==
    IF needed > b.size
    THEN EncodeObjectGrown(json_realloc(r.p, b.blk), o, i, b, r, needed, junk)
    ELSE EncodeObjectAppend(r.p, o, i, b, r, junk)

\* r is what json_encode made of the value at i.  json__strlen(value) is
\* called without a test of value: on NULL it reads address 0.
EncodeObjectValue(r, o, i, b, junk) ==
    IF r.p.crashed THEN r
    ELSE IF r.ptr = 0 THEN Encoded([r.p EXCEPT !.ub = TRUE, !.crashed = TRUE], 0, <<>>)
    ELSE EncodeObjectNeeded(o, i, b, r,
                            Len(b.text) + json__strlen(o.slots[i].keystr \o <<0>>)
                              + json__strlen(r.text \o <<0>>) + 4
                              + (IF i < o.n_items THEN 1 ELSE 0),
                            junk)

\* The for loop of json__encode_object; i counts from 1.  A slot holding
\* NULL is dereferenced.
EncodeObjectLoop(h, o, i, b, junk) ==
    IF i > o.n_items THEN EncodeClose(h, b, 125)
    ELSE IF o.slots[i].rec <= 0
    THEN Encoded([h EXCEPT !.ub = TRUE, !.crashed = TRUE], 0, <<>>)
    ELSE EncodeObjectValue(json_encode(h, o.slots[i].value, junk), o, i, b, junk)

\* json__encode_object from its json_alloc(buffer_size) on.
EncodeObjectSized(a, o, junk, buffer_size) ==
    IF a.ptr = 0 THEN Encoded(a.p, 0, <<>>)
    ELSE EncodeObjectLoop(a.p, o, 1, [blk |-> a.ptr, size |-> buffer_size, text |-> <<123>>],
                          junk)

\* int buffer_size = 256;
EncodeObjectAlloc(a, o, junk) == EncodeObjectSized(a, o, junk, 256)

json__encode_object(h, o, junk) == EncodeObjectAlloc(json_alloc(h), o, junk)

json_encode(h, v, junk) ==
    IF v.type = "string" THEN json__encode_string(h, v, junk)
    ELSE IF v.type = "number" THEN EncodeCopy(json_alloc(h), snprintf_17g(v.number))
    ELSE IF v.type = "boolean"
    THEN EncodeCopy(json_alloc(h), IF v.number # 0 THEN <<116, 114, 117, 101>>
                                   ELSE <<102, 97, 108, 115, 101>>)
    ELSE IF v.type = "null" THEN EncodeCopy(json_alloc(h), <<110, 117, 108, 108>>)
    ELSE IF v.type = "array" THEN json__encode_array(h, v, junk)
    ELSE IF v.type = "object" THEN json__encode_object(h, v, junk)
    ELSE Encoded(h, 0, <<>>)

\* ------------------------------------------------------------ the inputs
Types == {"null", "boolean", "number", "string", "array", "object"}
Keys == {<<97>>, <<98>>, <<99>>}

\* The (key, variant) pairs json_object_set is called with: every variant
\* under the first key, fewer under the others.
KeyTypes(key) ==
    CASE key = <<97>> -> Types
      [] key = <<98>> -> {"number", "string"}
      [] OTHER        -> {"null"}

\* A well-formed value of each variant, laid out on the blocks ids, built
\* with the constructors and container operations above.
NewValue(t, ids) ==
    CASE t = "null"    -> json_null_cell(ids)
      [] t = "boolean" -> json_boolean_new(ids, 1)
      [] t = "number"  -> json_number_new(ids, 1)
      [] t = "string"  -> json_string_new(ids, <<120>>)
      [] t = "array"   -> json_array_push(json_array_new(ids),
                                          json_number_new(Drop(ids, 1), 1),
                                          Drop(ids, 2), TRUE).val
      [] t = "object"  -> json_object_set(json_object_new(ids), <<120>>,
                                          json_null_cell(Drop(ids, 1)),
                                          Drop(ids, 2), <<TRUE, TRUE, TRUE>>).val

\* The variants json_array_push is called with at each length: every variant
\* into the empty array, fewer further on.
PushTypes(length) ==
    CASE length = 0 -> Types
      [] length = 1 -> {"number", "string", "array"}
      [] OTHER      -> {"null", "string"}

NewSize(t) ==
    CASE t = "string" -> 2 [] t = "array" -> 3 [] t = "object" -> 5 [] OTHER -> 1

\* The blocks json_object_set may take for itself.
ObjectSetNeeds(o, key) ==
    (IF o.items = 0 THEN 1 ELSE 0) + (IF ObjectScan(o, key, 1) = 0 THEN 2 ELSE 0)

\* Which of the allocations of one json_object_set call fails, if any.
Oks == {<<TRUE, TRUE, TRUE>>, <<FALSE, TRUE, TRUE>>, <<TRUE, FALSE, TRUE>>,
        <<TRUE, TRUE, FALSE>>}

\* The record of a call: its arguments and result, the tree before it, the
\* blocks it freed, the call before it, and the number of pushes so far
\* while pushes are all that happened (-1 afterwards).
NoCall == [op |-> "new", rc |-> 0, key |-> <<>>, index |-> 0, arg |-> Uninit,
           pre |-> Uninit, freed |-> <<>>, ub |-> FALSE, oob |-> FALSE,
           prev |-> [op |-> "none", rc |-> 0, key |-> <<>>], npush |-> 0]

Call(op, rc, key, index, arg, freed, ub, oob) ==
    [op |-> op, rc |-> rc, key |-> key, index |-> index, arg |-> arg, pre |-> root,
     freed |-> freed, ub |-> ub, oob |-> oob,
     prev |-> [op |-> last.op, rc |-> last.rc, key |-> last.key],
     npush |-> IF op = "push" /\ last.npush >= 0
               THEN last.npush + (IF rc = 0 THEN 1 ELSE 0) ELSE -1]

Numbering(nroot, nlive, call) ==
    LET seen == Dedup(Walk(nroot) \o Walk(call.pre) \o Walk(call.arg) \o call.freed, {})
        ord  == seen \o Ascending(nlive \ Range(seen))
    IN  [b \in Range(ord) |-> Pos(ord, b)]

\* The state a call leaves.
Commit(nroot, nlive, call, ncrashed) ==
    \E f \in {Numbering(nroot, nlive, call)} :
        /\ root' = Renumber(nroot, f)
        /\ live' = {f[b] : b \in nlive}
        /\ last' = [call EXCEPT !.pre = Renumber(call.pre, f),
                                !.arg = Renumber(call.arg, f),
                                !.freed = [i \in 1..Len(call.freed) |-> f[call.freed[i]]]]
        /\ crashed' = ncrashed
        /\ parser' = parser

\* ---------------------------------------------------------------- machine
InitObject ==
    /\ root = json_object_new(<<1>>)
    /\ live = {1}
    /\ last = NoCall
    /\ crashed = FALSE
    /\ parser = NoParser

InitArray ==
    /\ root = json_array_new(<<1>>)
    /\ live = {1}
    /\ last = NoCall
    /\ crashed = FALSE
    /\ parser = NoParser

\* A call that aborted, ran into undefined behaviour or was handed an index
\* out of bounds is the last call of a run.
Running == ~crashed /\ ~last.ub /\ ~last.oob

\* The caller builds value and passes it; when the call fails the value is
\* still the caller's, who releases it with json_free.
ObjectSet(key, t, ok) ==
    /\ Running /\ root.type = "object"
    /\ \E ids \in {Fresh(live, root)} :
           /\ Len(ids) >= NewSize(t) + ObjectSetNeeds(root, key)
           /\ \E v \in {NewValue(t, ids)} :
              \E r \in {json_object_set(root, key, v, Drop(ids, NewSize(t)), ok)} :
              LET back == IF r.rc = 0 THEN {} ELSE BlocksOf(v)
              IN  Commit(r.val, Release(live \cup BlocksOf(v) \cup r.got, r.freed) \ back,
                         Call("set", IF r.crashed THEN -2 ELSE r.rc, key, 0, v, r.freed,
                              r.crashed, FALSE),
                         r.crashed)

ObjectRemove(key) ==
    /\ Running /\ root.type = "object"
    /\ \E r \in json_object_remove(root, key, 0, live) :
           Commit(r.val, r.live,
                  Call("remove", IF r.crashed THEN -2 ELSE 0, key, 0,
                       json_object_get(root, key), r.freed, r.ub, FALSE),
                  r.crashed)

ObjectClear ==
    /\ Running /\ root.type = "object"
    /\ \E r \in json_object_clear(root, 0, live) :
           Commit(r.val, r.live,
                  Call("clear", IF r.crashed THEN -2 ELSE 0, <<>>, 0, Uninit, r.freed,
                       r.ub, FALSE),
                  r.crashed)

ArrayPush(t, ok) ==
    /\ Running /\ root.type = "array" /\ root.length < MaxLen
    /\ \E ids \in {Fresh(live, root)} :
           /\ Len(ids) >= NewSize(t) + 1
           /\ \E v \in {NewValue(t, ids)} :
              \E r \in {json_array_push(root, v, Drop(ids, NewSize(t)), ok)} :
              LET back == IF r.rc = 0 THEN {} ELSE BlocksOf(v)
              IN  Commit(r.val, (live \cup BlocksOf(v) \cup r.got) \ back,
                         Call("push", r.rc, <<>>, 0, v, <<>>, r.ub, FALSE),
                         FALSE)

ArrayRemove(index) ==
    /\ Running /\ root.type = "array"
    /\ \E r \in json_array_remove(root, index, live) :
           Commit(r.val, r.live,
                  Call("aremove", IF r.crashed THEN -2 ELSE 0, <<>>, index,
                       IF ArraySlotInBuffer(root, index) THEN root.slots[index + 1]
                       ELSE Uninit,
                       r.freed, r.ub, r.oob),
                  r.crashed)

ArrayClear ==
    /\ Running /\ root.type = "array"
    /\ \E r \in json_array_clear(root, 0, live) :
           Commit(r.val, r.live,
                  Call("aclear", IF r.crashed THEN -2 ELSE 0, <<>>, 0, Uninit, r.freed,
                       r.ub, r.oob),
                  r.crashed)

NextObject ==
    \/ \E key \in Keys : \E t \in KeyTypes(key), ok \in Oks : ObjectSet(key, t, ok)
    \/ \E key \in Keys : ObjectRemove(key)
    \/ ObjectClear

NextArray ==
    \/ \E t \in PushTypes(root.length), ok \in BOOLEAN : ArrayPush(t, ok)
    \/ \E index \in -1..MaxIndex : ArrayRemove(index)
    \/ ArrayClear

SpecObject == InitObject /\ [][NextObject]_vars

SpecArray == InitArray /\ [][NextArray]_vars

\* The texts handed to the decoder: up to MaxTokens of these pieces in a row.
\* [  ]  {  }  1  1,  "a":  "s"  ,  and a blank
Tokens == {<<91>>, <<93>>, <<123>>, <<125>>, <<49>>, <<49, 44>>,
           <<34, 97, 34, 58>>, <<34, 115, 34>>, <<44>>, <<32>>}

RECURSIVE Inputs(_)
Inputs(n) ==
    IF n = 0 THEN {<<>>}
    ELSE LET S == Inputs(n - 1) IN S \cup {s \o t : s \in S, t \in Tokens}

\* What follows a buffer that is not zero-terminated.
Tails == {<<0>>, <<49, 0>>, <<34>>}

InitDecode ==
    /\ root = Uninit
    /\ live = {}
    /\ last = [NoCall EXCEPT !.op = "none"]
    /\ crashed = FALSE
    /\ parser \in {NewParser(json, <<>>, 0, 0) : json \in Inputs(MaxTokens)}

\* The state a decode call leaves.  After a free() of a block that is not
\* allocated the call may abort or go on.
Decoded(op, r) ==
    \E c \in (IF r.p.ub THEN BOOLEAN ELSE {r.p.crashed}) :
        /\ root' = r.val
        /\ live' = r.p.live
        /\ last' = [NoCall EXCEPT !.op = op, !.rc = r.rc, !.freed = r.p.freed,
                                  !.ub = r.p.ub, !.oob = r.p.oob,
                                  !.prev = [op |-> last.op, rc |-> last.rc, key |-> <<>>],
                                  !.npush = -1]
        /\ crashed' = c
        /\ parser' = r.p

\* Failing a request the call never makes is the same as failing none.
Decode(failAt) ==
    /\ last.op = "none"
    /\ \E r \in {json_decode(parser.input, failAt)} :
           /\ failAt <= r.p.allocs
           /\ Decoded("decode", r)

DecodeWithLength(tail, failAt) ==
    /\ last.op = "none"
    /\ \E r \in {json_decode_with_length(parser.input, tail, Len(parser.input), failAt)} :
           /\ failAt <= r.p.allocs
           /\ Decoded("decode_with_length", r)

NextDecode ==
    \/ \E failAt \in 0..MaxFail : Decode(failAt)
    \/ \E tail \in Tails, failAt \in 0..MaxFail : DecodeWithLength(tail, failAt)

SpecDecode == InitDecode /\ [][NextDecode]_vars

\* The valid texts handed to a decode, encode, decode round trip: scalars,
\* and arrays and objects of them.
\* 1  -0.5  0.1  true  false  null  "a"  "\n"  "\u00e9"  and the raw UTF-8
\* strings "e'" (C3 A9), "ae'", "aae'", the euro sign (E2 82 AC), "a" + euro
Scalars ==
    {<<49>>, <<45, 48, 46, 53>>, <<48, 46, 49>>, <<116, 114, 117, 101>>,
     <<102, 97, 108, 115, 101>>, <<110, 117, 108, 108>>, <<34, 97, 34>>,
     <<34, 92, 110, 34>>, <<34, 92, 117, 48, 48, 101, 57, 34>>,
     <<34, 195, 169, 34>>, <<34, 97, 195, 169, 34>>, <<34, 97, 97, 195, 169, 34>>,
     <<34, 226, 130, 172, 34>>, <<34, 97, 226, 130, 172, 34>>}

\* 1  "a"  "ae'"
SecondScalars == {<<49>>, <<34, 97, 34>>, <<34, 97, 195, 169, 34>>}

\* The member names "a", "b", and a"b and a\b written with their escapes.
Names == {<<34, 97, 34>>, <<34, 98, 34>>, <<34, 97, 92, 34, 98, 34>>,
          <<34, 97, 92, 92, 98, 34>>}

Documents ==
    Scalars
    \cup {<<91, 93>>, <<123, 125>>}
    \cup {<<91>> \o x \o <<93>> : x \in Scalars}
    \cup {<<91>> \o x \o <<44>> \o y \o <<93>> : x \in Scalars, y \in SecondScalars}
    \cup {<<91, 91>> \o x \o <<93, 93>> : x \in Scalars}
    \cup {<<123>> \o k \o <<58>> \o x \o <<125>> : k \in Names, x \in Scalars}
    \cup {<<123>> \o k \o <<58>> \o x \o <<44>> \o j \o <<58>> \o y \o <<125>> :
            k \in Names, x \in SecondScalars, j \in Names, y \in SecondScalars}
    \cup {<<123>> \o k \o <<58, 91>> \o x \o <<93, 125>> : k \in Names, x \in Scalars}
    \cup {<<91, 123>> \o k \o <<58>> \o x \o <<125, 93>> : k \in Names, x \in SecondScalars}

\* What the memory behind the end of a string holds.
JunkBytes == {0, 128}

MaxEncodeFail == 3

InitRound ==
    /\ root = Uninit
    /\ live = {}
    /\ last = [NoCall EXCEPT !.op = "none"]
    /\ crashed = FALSE
    /\ parser \in {NewParser(json, <<>>, 0, 0) : json \in Documents}

\* The state the round trip leaves: root is the tree of the first decode, e
\* the outcome of json_encode (text in last.key, block in last.index), and d
\* the outcome of the decode of that text (tree in last.arg, result in
\* last.rc; -1 with no tree when json_encode returned NULL).
RoundTripped(d1, e, d) ==
    /\ root' = d1.val
    /\ live' = e.p.live
    /\ last' = [NoCall EXCEPT !.op = "roundtrip", !.rc = d.rc, !.arg = d.val,
                              !.key = e.text, !.index = e.ptr,
                              !.freed = e.p.freed, !.ub = e.p.ub, !.oob = e.p.oob,
                              !.pre = d1.val,
                              !.prev = [op |-> "decode", rc |-> d1.rc, key |-> <<>>],
                              !.npush = -1]
    /\ crashed' = e.p.crashed
    /\ parser' = e.p

Reencoded(d1, e) ==
    RoundTripped(d1, e, IF e.ptr = 0 THEN Fail(e.p) ELSE json_decode(e.text, 0))

\* value = json_decode(text); out = json_encode(value); json_decode(out).
\* The failAt-th allocation request of json_encode fails (0: none).
RoundTrip(failAt, junk) ==
    /\ last.op = "none"
    /\ \E d1 \in {json_decode(parser.input, 0)} :
           /\ d1.rc = 0
           /\ \E e \in {json_encode([d1.p EXCEPT !.failAt = IF failAt = 0 THEN 0
                                                            ELSE d1.p.allocs + failAt],
                                    d1.val, junk)} :
                  /\ failAt <= e.p.allocs - d1.p.allocs
                  /\ Reencoded(d1, e)

NextRound == \E failAt \in 0..MaxEncodeFail, junk \in JunkBytes : RoundTrip(failAt, junk)

SpecRound == InitRound /\ [][NextRound]_vars

\* The finite doubles handed to json_number_new: (-1)^neg * man * 2^exp for
\* the odd mantissas 1, 3, 5, 2^52 + 1, 2^53 - 1 and those of 0.1, of
\* 0.30000000000000004 and of 1e23, the exponents below, and the two zeros.
MaxExponent == 75

Mantissas ==
    {<<1>>, <<3>>, <<5>>,
     <<4, 5, 0, 3, 5, 9, 9, 6, 2, 7, 3, 7, 0, 4, 9, 7>>,
     <<9, 0, 0, 7, 1, 9, 9, 2, 5, 4, 7, 4, 0, 9, 9, 1>>,
     <<3, 6, 0, 2, 8, 7, 9, 7, 0, 1, 8, 9, 6, 3, 9, 7>>,
     <<1, 3, 5, 1, 0, 7, 9, 8, 8, 8, 2, 1, 1, 1, 4, 9>>,
     <<2, 9, 8, 0, 2, 3, 2, 2, 3, 8, 7, 6, 9, 5, 3, 1>>}

Exponents == {-MaxExponent, -60, -55, -52, -4, -1, 0, 1, 10, 25, 53, MaxExponent}

Doubles ==
    {Double(neg, man, exp) : neg \in BOOLEAN, man \in Mantissas, exp \in Exponents}
    \cup {Double(neg, <<0>>, 0) : neg \in BOOLEAN}

\* value = json_number_new(x), in block 1.
InitNumber ==
    /\ root \in {json_number_new(<<1>>, x) : x \in Doubles}
    /\ live = {1}
    /\ last = [NoCall EXCEPT !.op = "none"]
    /\ crashed = FALSE
    /\ parser = json_alloc(NoParser).p

\* out = json_encode(value); json_decode(out).  The failAt-th allocation
\* request of json_encode fails (0: none).
NumberRoundTrip(failAt) ==
    /\ last.op = "none"
    /\ \E e \in {json_encode([parser EXCEPT !.failAt = IF failAt = 0 THEN 0
                                                        ELSE parser.allocs + failAt],
                             root, 0)} :
           Reencoded([p |-> parser, rc |-> 0, val |-> root], e)

NextNumber == \E failAt \in 0..1 : NumberRoundTrip(failAt)

SpecNumber == InitNumber /\ [][NextNumber]_vars

\* The buffers json__decode_number and json__decode_value are started on:
\* every string of up to MaxScan of the bytes - 0 1 . e x, some numbers with
\* + and E, and the literals, whole, cut short and with a wrong last letter.
MaxScan == 4

ScanBytes == {45, 48, 49, 46, 101, 120}

RECURSIVE ScanStrings(_)
ScanStrings(n) ==
    IF n = 0 THEN {<<>>}
    ELSE ScanStrings(n - 1) \cup {s \o <<c>> : s \in ScanStrings(n - 1), c \in ScanBytes}

\* 1.1e1  -1.5e-1  0.1e+1  -0.0e01  1E1  1E+1  0E-1  1.0E1  1e+1  1e+  +1
\* 1+1  true  false  null  tru  fals  nul  t  truX  falsX  nulX  truee  falsee
ScanWords ==
    {<<49, 46, 49, 101, 49>>, <<45, 49, 46, 53, 101, 45, 49>>, <<48, 46, 49, 101, 43, 49>>,
     <<45, 48, 46, 48, 101, 48, 49>>,
     <<49, 69, 49>>, <<49, 69, 43, 49>>, <<48, 69, 45, 49>>, <<49, 46, 48, 69, 49>>,
     <<49, 101, 43, 49>>, <<49, 101, 43>>, <<43, 49>>, <<49, 43, 49>>,
     <<116, 114, 117, 101>>, <<102, 97, 108, 115, 101>>, <<110, 117, 108, 108>>,
     <<116, 114, 117>>, <<102, 97, 108, 115>>, <<110, 117, 108>>, <<116>>,
     <<116, 114, 117, 88>>, <<102, 97, 108, 115, 88>>, <<110, 117, 108, 88>>,
     <<116, 114, 117, 101, 101>>, <<102, 97, 108, 115, 101, 101>>}

ScanInputs == ScanStrings(MaxScan) \cup ScanWords

\* A parser over buf, or over buf less its last byte (what follows the
\* buffer is then that byte and a zero), its cursor at 0 or 1, and the value
\* to fill in block 1.
InitScan ==
    /\ root = Uninit
    /\ live = {1}
    /\ last = [NoCall EXCEPT !.op = "none"]
    /\ crashed = FALSE
    /\ parser \in {[json_alloc(NewParser(buf, <<0>>, Len(buf) - cut, 0)).p
                       EXCEPT !.position = pos] :
                     buf \in ScanInputs, cut \in 0..1, pos \in 0..1}
    /\ parser.length >= parser.position

\* The state a call on the parser leaves; last.index is where the cursor was.
Scanned(op, r) ==
    /\ root' = r.val
    /\ live' = r.p.live
    /\ last' = [NoCall EXCEPT !.op = op, !.rc = r.rc, !.index = parser.position,
                              !.oob = r.p.oob,
                              !.prev = [op |-> last.op, rc |-> last.rc, key |-> <<>>],
                              !.npush = -1]
    /\ crashed' = r.p.crashed
    /\ parser' = r.p

ScanNumber ==
    /\ last.op = "none"
    /\ \E r \in {json__decode_number(parser, 1)} : Scanned("decode_number", r)

ScanValue ==
    /\ last.op = "none"
    /\ \E r \in {json__decode_value(parser, 1)} : Scanned("decode_value", r)

NextScan == ScanNumber \/ ScanValue

SpecScan == InitScan /\ [][NextScan]_vars

\* Strings that hold the escape of a high surrogate and what follows it:
\* the four hex digits of D800, D83D, DBFF, dbff, D801 and behind them the
\* escape of DC00, DE00, DFFF, dfff, DBFF, E000, 0041, DC0G, an unfinished
\* escape, a letter, \n, \\, or nothing.
HighSurrogates ==
    {<<68, 56, 48, 48>>, <<68, 56, 51, 68>>, <<68, 66, 70, 70>>, <<100, 98, 102, 102>>,
     <<68, 56, 48, 49>>}

Followers ==
    {<<92, 117>> \o l : l \in {<<68, 67, 48, 48>>, <<68, 69, 48, 48>>, <<68, 70, 70, 70>>,
                               <<100, 102, 102, 102>>, <<68, 66, 70, 70>>, <<69, 48, 48, 48>>,
                               <<48, 48, 52, 49>>, <<68, 67, 48, 71>>, <<68, 67, 48>>}}
    \cup {<<>>, <<97>>, <<92, 110>>, <<92, 92>>, <<117, 68, 67, 48, 48>>}

SurrogateTexts == {<<34, 92, 117>> \o h \o f \o <<34>> : h \in HighSurrogates, f \in Followers}

InitString ==
    /\ root = Uninit
    /\ live = {}
    /\ last = [NoCall EXCEPT !.op = "none"]
    /\ crashed = FALSE
    /\ parser \in {NewParser(json, <<>>, 0, 0) : json \in SurrogateTexts}

SpecString == InitString /\ [][NextDecode]_vars

\* The String member of the union: capacity, length, value.  No function
\* of the library stores capacity, so it holds whatever malloc left in the
\* cell: any of the values below.
Indeterminate == -1..(MaxLen + 1)

WithCapacity(v, capacity) ==
    [type |-> v.type, cell |-> v.cell, buf |-> v.buf, capacity |-> capacity,
     length |-> v.length, value |-> v.value]

\* The strings of up to n of the bytes a and b.
RECURSIVE Letters(_)
Letters(n) ==
    IF n = 0 THEN {<<>>}
    ELSE Letters(n - 1) \cup {s \o <<c>> : s \in Letters(n - 1), c \in {97, 98}}

InitText ==
    /\ root = Uninit
    /\ live = {}
    /\ last = [NoCall EXCEPT !.op = "none"]
    /\ crashed = FALSE
    /\ parser = NoParser

\* value = json_string_new(string)
StringNew(string, capacity) ==
    /\ last.op = "none"
    /\ root' = WithCapacity(json_string_new(<<1, 2>>, string \o <<0>>), capacity)
    /\ live' = {1, 2}
    /\ last' = [NoCall EXCEPT !.op = "string_new", !.key = string]
    /\ UNCHANGED <<crashed, parser>>

\* value = json_decode("\"...\"")
StringDecode(string, capacity) ==
    /\ last.op = "none"
    /\ \E r \in {json_decode(<<34>> \o string \o <<34>>, 0)} :
           /\ r.rc = 0
           /\ root' = WithCapacity(r.val, capacity)
           /\ live' = r.p.live
           /\ last' = [NoCall EXCEPT !.op = "decode", !.key = string]
           /\ parser' = r.p
    /\ UNCHANGED crashed

\* json_string_set(value, string): the macro stores the pointer only; the
\* bytes are the caller's (block 0 here) and the old buffer stays allocated.
StringSet(string) ==
    /\ last.op \in {"string_new", "decode"}
    /\ root' = [root EXCEPT !.value = string, !.buf = 0]
    /\ last' = [NoCall EXCEPT !.op = "string_set", !.key = string, !.pre = root]
    /\ UNCHANGED <<live, crashed, parser>>

NextText ==
    \/ \E string \in Letters(MaxLen), capacity \in Indeterminate : StringNew(string, capacity)
    \/ \E string \in Letters(MaxLen), capacity \in Indeterminate : StringDecode(string, capacity)
    \/ \E string \in Letters(MaxLen) : StringSet(string)

SpecText == InitText /\ [][NextText]_vars

\* --------------------------------------------------------- json_deep_copy
\* Every operator takes the heap p and yields [p, val]: the heap after its
\* allocation requests and the copy.
RECURSIVE json_deep_copy(_, _), CopyItems(_, _, _), CopyEntries(_, _, _)

\* default: new_value = json_alloc(sizeof(struct json_value)); memcpy
CopyCell(r, v) == [p |-> r.p, val |-> [v EXCEPT !.cell = r.ptr]]

\* case JSON_TYPE_STRING: json_string_new(value->string.value), which takes
\* the bytes up to the first zero; r1 is the cell, r2 the buffer.
CopyBuffer(r1, r2, v) ==
    [p |-> r2.p, val |-> json_string_new(<<r1.ptr, r2.ptr>>, v.value \o <<0>>)]

CopyString(r1, v) == CopyBuffer(r1, json_alloc(r1.p), v)

\* json_array_push(new_value, json_deep_copy(element)); e is the copied
\* element, r the outcome of the json_realloc the push makes when it grows.
CopyPushed(r, a, e) ==
    [p |-> r.p, val |-> json_array_push(a, e, <<r.ptr>>, r.ptr # 0).val]

CopyPush(e, a) ==
    CopyPushed(IF a.length >= a.capacity * JSON_ARRAY_CAPACITY_THRESHOLD
               THEN json_realloc(e.p, a.items) ELSE [p |-> e.p, ptr |-> a.items],
               a, e.val)

\* while (json_array_iter(value, &iter, &element)); c is the copy so far.
CopyItems(c, v, iter) ==
    IF iter >= v.length THEN c
    ELSE CopyItems(CopyPush(json_deep_copy(c.p, v.slots[iter + 1]), c.val), v, iter + 1)

\* json_object_set(new_value, key, json_deep_copy(element)) with the outcomes
\* of its requests: r1 the item buffer, r2 the entry, r3 the copy of the key.
CopySetKey(r1, r2, r3, o, key, e) ==
    [p |-> r3.p,
     val |-> json_object_set(o, key \o <<0>>, e,
                             IF o.items = 0 THEN <<r1.ptr, r2.ptr, r3.ptr>>
                             ELSE <<r2.ptr, r3.ptr>>,
                             <<r1.ptr # 0, r2.ptr # 0, r3.ptr # 0>>).val]

CopySetEntry(r1, r2, o, key, e) ==
    CopySetKey(r1, r2, IF r2.ptr # 0 THEN json_alloc(r2.p) ELSE [p |-> r2.p, ptr |-> 0],
               o, key, e)

CopySetItems(r1, o, key, e) ==
    CopySetEntry(r1, IF r1.ptr # 0 /\ ObjectScan(o, key \o <<0>>, 1) = 0
                     THEN json_alloc(r1.p) ELSE [p |-> r1.p, ptr |-> 0],
                 o, key, e)

CopySet(e, o, key) ==
    CopySetItems(IF o.n_items >= o.capacity * JSON_OBJECT_CAPACITY_THRESHOLD
                 THEN json_realloc(e.p, o.items) ELSE [p |-> e.p, ptr |-> o.items],
                 o, key, e.val)

\* while (json_object_iter(value, &iter, &key, &element))
CopyEntries(c, v, iter) ==
    IF iter >= v.n_items THEN c
    ELSE CopyEntries(CopySet(json_deep_copy(c.p, v.slots[iter + 1].value), c.val,
                             v.slots[iter + 1].keystr),
                     v, iter + 1)

CopyNew(r, v) ==
    IF v.type = "object" THEN CopyEntries([p |-> r.p, val |-> json_object_init(r.ptr)], v, 0)
    ELSE IF v.type = "array" THEN CopyItems([p |-> r.p, val |-> json_array_init(r.ptr)], v, 0)
    ELSE IF v.type = "string" THEN CopyString(r, v)
    ELSE CopyCell(r, v)

json_deep_copy(p, v) == CopyNew(json_alloc(p), v)

\* The trees handed to json_deep_copy: the decoded documents, and strings
\* that hold a zero byte:  "a\u0000b"  ["\u0000"]  {"a":"b\u0000"}
ZeroTexts ==
    {<<34, 97, 92, 117, 48, 48, 48, 48, 98, 34>>,
     <<91, 34, 92, 117, 48, 48, 48, 48, 34, 93>>,
     <<123, 34, 97, 34, 58, 34, 98, 92, 117, 48, 48, 48, 48, 34, 125>>}

InitCopy ==
    /\ root = Uninit
    /\ live = {}
    /\ last = [NoCall EXCEPT !.op = "none"]
    /\ crashed = FALSE
    /\ parser \in {NewParser(json, <<>>, 0, 0) : json \in Documents \cup ZeroTexts}

\* copy = json_deep_copy(root), every allocation succeeding; the copy is kept
\* in last.arg.
DeepCopy ==
    /\ last.op = "decode" /\ last.rc = 0 /\ ~crashed
    /\ \E c \in {json_deep_copy(parser, root)} :
           /\ last' = [NoCall EXCEPT !.op = "deep_copy", !.arg = c.val, !.pre = root,
                                     !.prev = [op |-> last.op, rc |-> last.rc, key |-> <<>>]]
           /\ live' = c.p.live
           /\ parser' = c.p
    /\ UNCHANGED <<root, crashed>>

\* json_free(copy)
FreeCopy ==
    /\ last.op = "deep_copy"
    /\ \E h \in {FreeTrace(parser, json_free(last.arg))} :
           /\ last' = [last EXCEPT !.op = "free_copy", !.freed = json_free(last.arg),
                                   !.ub = h.ub,
                                   !.prev = [op |-> last.op, rc |-> last.rc, key |-> <<>>]]
           /\ live' = h.live
           /\ parser' = h
    /\ UNCHANGED <<root, crashed>>

\* json_free(root) of a decoded tree; last.pre keeps the tree, last.arg the
\* blocks that were allocated before the call.
FreeRoot ==
    /\ last.op = "decode" /\ last.rc = 0 /\ ~crashed
    /\ \E h \in {FreeTrace(parser, json_free(root))} :
           /\ last' = [NoCall EXCEPT !.op = "free", !.pre = root, !.arg = live,
                                     !.freed = json_free(root), !.ub = h.ub,
                                     !.prev = [op |-> last.op, rc |-> last.rc, key |-> <<>>]]
           /\ live' = h.live
           /\ parser' = h
    /\ root' = Uninit
    /\ UNCHANGED crashed

NextCopy ==
    \/ Decode(0)
    \/ DeepCopy
    \/ FreeCopy
    \/ FreeRoot

SpecCopy == InitCopy /\ [][NextCopy]_vars

\* Number tokens that leave the number grammar:
\* -  1.  1e  1e+  -1.  0.e1  1.5e  -a  -.5  1.5e-  -0.  0e
BadNumbers ==
    {<<45>>, <<49, 46>>, <<49, 101>>, <<49, 101, 43>>, <<45, 49, 46>>,
     <<48, 46, 101, 49>>, <<49, 46, 53, 101>>, <<45, 97>>, <<45, 46, 53>>,
     <<49, 46, 53, 101, 45>>, <<45, 48, 46>>, <<48, 101>>}

\* A token at the top level, as an array element, and as the value of an
\* object entry:  X  [X]  [1,X]  [ X ]  [[X]]  {"a":X}  {"a":1,"b":X}
\* {"a": X }  [{"a":X}]  {"a":[X]}
Nested(x) ==
    {x, <<91>> \o x \o <<93>>, <<91, 49, 44>> \o x \o <<93>>,
     <<91, 32>> \o x \o <<32, 93>>, <<91, 91>> \o x \o <<93, 93>>,
     <<123, 34, 97, 34, 58>> \o x \o <<125>>,
     <<123, 34, 97, 34, 58, 49, 44, 34, 98, 34, 58>> \o x \o <<125>>,
     <<123, 34, 97, 34, 58, 32>> \o x \o <<32, 125>>,
     <<91, 123, 34, 97, 34, 58>> \o x \o <<125, 93>>,
     <<123, 34, 97, 34, 58, 91>> \o x \o <<93, 125>>}

InitError ==
    /\ root = Uninit
    /\ live = {}
    /\ last = [NoCall EXCEPT !.op = "none"]
    /\ crashed = FALSE
    /\ parser \in {NewParser(json, <<>>, 0, 0) : json \in UNION {Nested(x) : x \in BadNumbers}}

\* json_decode of the text, built with JSON_ERROR; parser.code is the kind
\* the error handler is given.
NextError == Decode(0)

SpecError == InitError /\ [][NextError]_vars

\* ------------------------------------------- the output buffer of a container
\* The initial buffer_size of json__encode_array and json__encode_object is a
\* parameter here, of 3 to MaxBuffer bytes: 3 bytes hold the two brackets and
\* the terminating zero of an empty container, as 512 and 256 do.
MaxBuffer == 14

\* Items of 1, 2, 4 and 5 bytes of text:  1  10  true  "abc"
BufferItems == {<<49>>, <<49, 48>>, <<116, 114, 117, 101>>, <<34, 97, 98, 99, 34>>}

\* "a":  "bb":
BufferKeys == {<<34, 97, 34, 58>>, <<34, 98, 98, 34, 58>>}

\* Arrays of up to three items and objects of up to two entries.
BufferTexts ==
    {<<91, 93>>, <<123, 125>>}
    \cup {<<91>> \o x \o <<93>> : x \in BufferItems}
    \cup {<<91>> \o x \o <<44>> \o y \o <<93>> : x \in BufferItems, y \in BufferItems}
    \cup {<<91>> \o x \o <<44>> \o y \o <<44>> \o z \o <<93>> :
            x \in BufferItems, y \in BufferItems, z \in {<<49>>, <<49, 48>>}}
    \cup {<<123>> \o k \o x \o <<125>> : k \in BufferKeys, x \in BufferItems}
    \cup {<<123, 34, 97, 34, 58>> \o x \o <<44, 34, 98, 98, 34, 58>> \o y \o <<125>> :
            x \in BufferItems, y \in BufferItems}

InitBuffer ==
    /\ root = Uninit
    /\ live = {}
    /\ last = [NoCall EXCEPT !.op = "none"]
    /\ crashed = FALSE
    /\ parser \in {NewParser(json, <<>>, 0, 0) : json \in BufferTexts}

\* json__encode_array or json__encode_object on the decoded container, with
\* buffer_size for its initial buffer; last.key is the text, last.index the
\* initial size, last.oob tells whether a byte was written outside the buffer.
EncodeSized(buffer_size) ==
    /\ last.op = "decode" /\ last.rc = 0 /\ ~crashed
    /\ \E r \in {IF root.type = "array"
                 THEN EncodeArraySized(json_alloc(parser), root, 0, buffer_size)
                 ELSE EncodeObjectSized(json_alloc(parser), root, 0, buffer_size)} :
           /\ last' = [NoCall EXCEPT !.op = "encode_sized", !.key = r.text,
                                     !.index = buffer_size, !.oob = r.p.oob,
                                     !.rc = IF r.ptr = 0 THEN -1 ELSE 0,
                                     !.prev = [op |-> last.op, rc |-> last.rc, key |-> <<>>]]
           /\ live' = r.p.live
           /\ parser' = r.p
    /\ UNCHANGED <<root, crashed>>

NextBuffer ==
    \/ Decode(0)
    \/ \E buffer_size \in 3..MaxBuffer : EncodeSized(buffer_size)

SpecBuffer == InitBuffer /\ [][NextBuffer]_vars

\* ------------------------------------------------- strings of ASCII bytes
\* The strings handed to json_string_new: up to MaxAscii of the bytes
\* 01  \b  \t  \n  \f  \r  1F  "  /  \  a  n  u  7F
MaxAscii == 2

AsciiBytes == {1, 8, 9, 10, 12, 13, 31, 34, 47, 92, 97, 110, 117, 127}

RECURSIVE AsciiStrings(_)
AsciiStrings(n) ==
    IF n = 0 THEN {<<>>}
    ELSE AsciiStrings(n - 1) \cup {s \o <<c>> : s \in AsciiStrings(n - 1), c \in AsciiBytes}

\* Strings of 15 to 17 bytes, around the first size of the decoder's buffer:
\* 14 to 16 times a and then a, a quotation mark or the byte 1F.
LongStrings == {Repeat(97, n) \o <<c>> : n \in 14..16, c \in {97, 34, 31}}

\* root = json_string_new(s): the cell is block 1, the buffer block 2.
InitAscii ==
    /\ root \in {json_string_new(<<1, 2>>, s \o <<0>>) :
                   s \in AsciiStrings(MaxAscii) \cup LongStrings}
    /\ live = {1, 2}
    /\ last = [NoCall EXCEPT !.op = "string_new"]
    /\ crashed = FALSE
    /\ parser = [NewParser(<<>>, <<>>, 0, 0) EXCEPT !.next = 3, !.live = {1, 2}]

\* text = json_encode(root), no allocation failing; the text is kept in
\* last.key and its block in last.index.
AsciiEncode(junk) ==
    /\ last.op = "string_new"
    /\ \E e \in {json_encode(parser, root, junk)} :
           /\ last' = [NoCall EXCEPT !.op = "encode", !.key = e.text, !.index = e.ptr,
                                     !.rc = IF e.ptr = 0 THEN -1 ELSE 0, !.oob = e.p.oob,
                                     !.prev = [op |-> last.op, rc |-> last.rc, key |-> <<>>]]
           /\ live' = e.p.live
           /\ parser' = e.p
    /\ UNCHANGED <<root, crashed>>

\* json_decode(text) of the text json_encode returned; the tree is kept in
\* last.arg.
AsciiDecode ==
    /\ last.op = "encode" /\ last.rc = 0
    /\ \E d \in {json_decode(last.key, 0)} :
           /\ last' = [last EXCEPT !.op = "decode_text", !.rc = d.rc, !.arg = d.val,
                                   !.prev = [op |-> last.op, rc |-> last.rc, key |-> <<>>]]
           /\ crashed' = d.p.crashed
    /\ UNCHANGED <<root, live, parser>>

NextAscii ==
    \/ \E junk \in JunkBytes : AsciiEncode(junk)
    \/ AsciiDecode

SpecAscii == InitAscii /\ [][NextAscii]_vars

\* ------------------------------------------- the decoder, one loop turn a step
\* json_decode_with_length as a machine that takes one step per test of a
\* loop condition.  parser holds the cursor, last.op the place in the code,
\* root.frames the calls in progress, innermost last.  A frame is
\*   kind  "array"  json__decode_array in its while loop
\*         "object" json__decode_object in its while loop
\*         "string" json__decode_string called for a value
\*         "key"    json__decode_string called for the key of an entry
\*   at    the cursor at the previous test of the frame's loop (-1: none yet)
\*   end   the local variable end of json__decode_string
\* Only the cursor and the control flow are kept; any allocation request may
\* fail, and every failure makes each caller return at once.
Frame(kind, at, end) == [kind |-> kind, at |-> at, end |-> end]

Top(frames) == frames[Len(frames)]

Pop(frames) == IF frames = <<>> THEN <<>> ELSE SubSeq(frames, 1, Len(frames) - 1)

Retop(frames, f) == Pop(frames) \o <<f>>

\* The machine at place op with parser p and the calls frames.
Place(op, p, frames) == [op |-> op, p |-> p, frames |-> frames]

\* Variant: the increment at the end of the scan loop is missing.
ScanPlain_stuck(end) == end

\* end++ at the end of the scan loop, for a byte that is no backslash.
ScanPlain(end) == end + 1

\* One turn of the while loop of json__decode_string with the cursor at end:
\* the next value of end, -1 when the turn returns -1.
ScanStep(p, end) ==
    IF At(p, end) # 92 THEN ScanPlain(end)
    ELSE IF end + 1 >= p.length THEN -1
    ELSE IF At(p, end + 1) # 117
    THEN (IF EscapedChar(At(p, end + 1)) < 0 THEN -1 ELSE end + 2)
    ELSE IF end + 2 + 3 >= p.length \/ Hex4(p, end + 2) < 0 THEN -1
    ELSE IF Hex4(p, end + 2) < 55296 \/ Hex4(p, end + 2) > 56319 THEN end + 6
    ELSE IF end + 7 >= p.length \/ At(p, end + 6) # 92 \/ At(p, end + 7) # 117 THEN -1
    ELSE IF end + 8 + 3 >= p.length \/ Hex4(p, end + 8) < 0 THEN -1
    ELSE IF Hex4(p, end + 8) < 56320 \/ Hex4(p, end + 8) > 57343 THEN -1
    ELSE end + 12

\* In the operators below ok tells whether the allocation request of the
\* step, if it makes one, succeeds.

\* json__decode_value returned 0 to the call frames ends with: the rest of
\* the turn of the caller's loop, up to the next test of its condition.
Returned(p, frames, ok) ==
    IF frames = <<>> THEN Place("done", p, frames)
    ELSE IF Top(frames).kind = "array"
    THEN \* json_array_push; whitespace; skip ','
         Place("array_loop", SkipComma(json__parse_whitespace(p)), frames)
    ELSE \* json_object_set; json__free(key); whitespace; skip ','
         IF ok THEN Place("object_loop", SkipComma(json__parse_whitespace(p)), frames)
         ELSE Place("failed", p, frames)

\* json__decode_number at the cursor, without the value it stores: the
\* parser it leaves and what it returns.  Each operator gets its parser
\* computed, so that a step costs the same wherever it is evaluated.
Moved(p, rc) == [p |-> p, rc |-> rc]

\* strtod's endptr for the decimal form (start when no digit is read).
StrtodEndDecimal(p, start, s, d1, d2) ==
    IF d1 = s /\ d2 <= d1 + 1 THEN start ELSE ExponentEnd(p, d2, {101, 69})

StrtodEndDigits(p, start, s, d1) ==
    CHOOSE e \in {StrtodEndDecimal(p, start, s, d1, d2) : d2 \in {FractionEnd(p, d1)}} : TRUE

StrtodEndHex(p, h) ==
    ExponentEnd(p, IF At(p, h) = 46 THEN HexEnd(p, h + 1) ELSE h, {112, 80})

StrtodEndAt(p, start, s) ==
    IF At(p, s) = 48 /\ At(p, s + 1) \in {120, 88} /\ HexDigit(At(p, s + 2)) >= 0
    THEN CHOOSE e \in {StrtodEndHex(p, h) : h \in {HexEnd(p, s + 2)}} : TRUE
    ELSE CHOOSE e \in {StrtodEndDigits(p, start, s, d1) : d1 \in {DigitsEnd(p, s)}} : TRUE

\* strtod(input + start, &endptr): endptr alone.
StrtodEnd(p, start) ==
    CHOOSE e \in {StrtodEndAt(p, start, s) : s \in {SignEnd(p, start)}} : TRUE

\* if (start == position) ...;  strtod;  if (endptr != input + position) ...
CursorEnd(p, start) ==
    IF start = p.position THEN Moved(InvalidNumber(p).p, -1)
    ELSE IF StrtodEnd(p, start) # p.position THEN Moved(InvalidNumber(p).p, -1)
    ELSE Moved(p, 0)

CursorDigits(p) == CHOOSE q \in {json__parser_consume_digits(p)} : TRUE

\* behind 'e' or 'E' and an optional sign
CursorExponentDigits(p, start) ==
    IF InBounds(p) /\ IsDigit(At(p, p.position)) THEN CursorEnd(CursorDigits(p), start)
    ELSE Moved(InvalidNumber(p).p, -1)

CursorExponent(p, start) ==
    IF InBounds(p) /\ At(p, p.position) \in {101, 69}
    THEN IF p.position + 1 < p.length /\ At(p, p.position + 1) \in {45, 43}
         THEN CHOOSE r \in {CursorExponentDigits(q, start) : q \in {Advance(p, 2)}} : TRUE
         ELSE CHOOSE r \in {CursorExponentDigits(q, start) : q \in {Advance(p, 1)}} : TRUE
    ELSE CursorEnd(p, start)

\* behind the integer part
CursorFraction(p, start) ==
    IF InBounds(p) /\ At(p, p.position) = 46
    THEN IF p.position + 1 < p.length /\ IsDigit(At(p, p.position + 1))
         THEN CHOOSE r \in {CursorExponent(q, start) : q \in {CursorDigits(Advance(p, 1))}} : TRUE
         ELSE Moved(InvalidNumber(Advance(p, 1)).p, -1)
    ELSE CursorExponent(p, start)

\* behind an optional '-'
CursorInteger(p, start) ==
    IF InBounds(p) /\ At(p, p.position) = 48
    THEN CHOOSE r \in {CursorFraction(q, start) : q \in {Advance(p, 1)}} : TRUE
    ELSE IF InBounds(p) /\ At(p, p.position) >= 49 /\ At(p, p.position) <= 57
    THEN CHOOSE r \in {CursorFraction(q, start) : q \in {CursorDigits(p)}} : TRUE
    ELSE Moved(InvalidNumber(p).p, -1)

CursorNumber(p) ==
    CHOOSE r \in {CursorInteger(q, p.position) :
                     q \in {IF InBounds(p) /\ At(p, p.position) = 45
                             THEN Advance(p, 1) ELSE p}} : TRUE

NumberStep(n, frames, ok) ==
    IF n.rc # 0 THEN Place("failed", n.p, frames) ELSE Returned(n.p, frames, ok)

\* json__decode_value up to the first loop test of the routine it calls, or
\* to its return for a literal or a number.
ValueStep(p, c, frames, ok) ==
    IF c = 34
    THEN IF ok THEN Place("string_loop", p, frames \o <<Frame("string", -1, p.position + 1)>>)
         ELSE Place("failed", p, frames)
    ELSE IF c = 91
    THEN IF p.length - p.position < 1 THEN Place("failed", p, frames)
         ELSE IF p.position + 1 < p.length /\ At(p, p.position + 1) = 93
         THEN Returned(Advance(p, 2), frames, ok)
         ELSE Place("array_loop", Advance(p, 1), frames \o <<Frame("array", -1, 0)>>)
    ELSE IF c = 123
    THEN Place("object_loop", json__parse_whitespace(Advance(p, 1)),
               frames \o <<Frame("object", -1, 0)>>)
    ELSE IF json__streqn(p, p.position, True, 4) THEN Returned(Advance(p, 4), frames, ok)
    ELSE IF json__streqn(p, p.position, False, 4) THEN Returned(Advance(p, 5), frames, ok)
    ELSE IF json__streqn(p, p.position, Null, 4) THEN Returned(Advance(p, 4), frames, ok)
    ELSE CHOOSE s \in {NumberStep(n, frames, ok) : n \in {CursorNumber(p)}} : TRUE

\* The test of the while loop of json__decode_array and either the turn up to
\* the call of json__decode_value, or what follows the loop.
ArrayStep(p, frames, ok) ==
    IF InBounds(p) /\ At(p, p.position) # 93
    THEN IF ok THEN Place("value", json__parse_whitespace(p),
                          Retop(frames, Frame("array", p.position, 0)))
         ELSE Place("failed", p, frames)
    ELSE IF p.position >= p.length \/ At(p, p.position) # 93 THEN Place("failed", p, frames)
    ELSE Returned(Advance(p, 1), Pop(frames), ok)

\* The turn of the loop of json__decode_object up to the scan of the key; w
\* is the parser behind the whitespace in front of the key.
ObjectEntryStep(p, w, frames, ok) ==
    IF At(w, w.position) # 34 THEN Place("failed", w, frames)
    ELSE IF ok THEN Place("string_loop", w,
                          Retop(frames, Frame("object", p.position, 0))
                            \o <<Frame("key", -1, w.position + 1)>>)
    ELSE Place("failed", w, frames)

\* The test of the while loop of json__decode_object and either the turn up
\* to the scan of the key, or what follows the loop.
ObjectStep(p, frames, ok) ==
    IF InBounds(p) /\ At(p, p.position) # 125
    THEN ObjectEntryStep(p, json__parse_whitespace(p), frames, ok)
    ELSE IF p.position >= p.length \/ At(p, p.position) # 125 THEN Place("failed", p, frames)
    ELSE Returned(Advance(p, 1), Pop(frames), ok)

\* After the key: the colon behind whitespace (w is the parser there),
\* json_alloc of the value, whitespace, and the call of json__decode_value.
KeyScanned(w, frames, ok) ==
    IF w.position >= w.length \/ At(w, w.position) # 58 THEN Place("failed", w, frames)
    ELSE IF ok THEN Place("value", json__parse_whitespace(Advance(w, 1)), frames)
    ELSE Place("failed", Advance(w, 1), frames)

\* The test of the while loop of json__decode_string and either one turn of
\* the loop (storing a byte may need a json_realloc), or what follows the
\* loop; f is the frame of the scan.
StringStep(p, f, frames, ok) ==
    IF f.end < p.length /\ At(p, f.end) # 34
    THEN IF ok /\ ScanStep(p, f.end) # -1
         THEN Place("string_loop", p, Retop(frames, Frame(f.kind, f.end, ScanStep(p, f.end))))
         ELSE Place("failed", p, frames)
    ELSE IF f.end = p.length THEN Place("failed", p, frames)
    ELSE IF f.kind = "key"
    THEN KeyScanned(json__parse_whitespace([p EXCEPT !.position = f.end + 1]), Pop(frames), ok)
    ELSE Returned([p EXCEPT !.position = f.end + 1], Pop(frames), ok)

\* The machine moves to the place s.
Goto(s) ==
    /\ last' = [NoCall EXCEPT !.op = s.op,
                              !.prev = [op |-> last.op, rc |-> 0, key |-> <<>>]]
    /\ parser' = s.p
    /\ root' = [type |-> "calls", frames |-> s.frames]
    /\ UNCHANGED <<live, crashed>>

\* value = json_alloc(...);  json__decode_value(&parser, value)
StepStart ==
    /\ last.op = "start"
    /\ \E ok \in BOOLEAN :
           \E s \in {Place(IF ok THEN "value" ELSE "failed", parser, <<>>)} : Goto(s)

StepValue ==
    /\ last.op = "value"
    /\ \E ok \in BOOLEAN :
           \E s \in {ValueStep(parser, At(parser, parser.position), root.frames, ok)} :
               Goto(s)

StepArray ==
    /\ last.op = "array_loop"
    /\ \E ok \in BOOLEAN : \E s \in {ArrayStep(parser, root.frames, ok)} : Goto(s)

StepObject ==
    /\ last.op = "object_loop"
    /\ \E ok \in BOOLEAN : \E s \in {ObjectStep(parser, root.frames, ok)} : Goto(s)

StepString ==
    /\ last.op = "string_loop"
    /\ \E ok \in BOOLEAN :
           \E s \in {StringStep(parser, Top(root.frames), root.frames, ok)} : Goto(s)

\* The texts the machine runs on: up to MaxStepTokens of the tokens, nested
\* containers, and strings with escapes, whole and cut short.
\* [1,[1],{"a":[1]}]  {"a":{"a":"s"},"s":[]}  [[[[1]]]]  [ 1 , true , null ]
\* {"a" : false}  "a\n\"b"  "\u0041"  "\uD83D\uDE00"  "\uD83Dx"  "\u00"  "\  "\q"
\* ["\\",1]  [tru  {"a":-}
MaxStepTokens == 3

StepTexts ==
    Inputs(MaxStepTokens)
    \cup {<<91, 49, 44, 91, 49, 93, 44, 123, 34, 97, 34, 58, 91, 49, 93, 125, 93>>,
          <<123, 34, 97, 34, 58, 123, 34, 97, 34, 58, 34, 115, 34, 125, 44, 34, 115, 34, 58,
            91, 93, 125>>,
          <<91, 91, 91, 91, 49, 93, 93, 93, 93>>,
          <<91, 32, 49, 32, 44, 32, 116, 114, 117, 101, 32, 44, 32, 110, 117, 108, 108, 32, 93>>,
          <<123, 34, 97, 34, 32, 58, 32, 102, 97, 108, 115, 101, 125>>,
          <<34, 97, 92, 110, 92, 34, 98, 34>>,
          <<34, 92, 117, 48, 48, 52, 49, 34>>,
          <<34, 92, 117, 68, 56, 51, 68, 92, 117, 68, 69, 48, 48, 34>>,
          <<34, 92, 117, 68, 56, 51, 68, 120, 34>>,
          <<34, 92, 117, 48, 48, 34>>,
          <<34, 92>>,
          <<34, 92, 113, 34>>,
          <<91, 34, 92, 92, 34, 44, 49, 93>>,
          <<91, 116, 114, 117>>,
          <<123, 34, 97, 34, 58, 45, 125>>}

\* Before json_decode_with_length(json, length): the parser it sets up, and
\* the bytes that lie behind the length bytes of the text.
InitSteps ==
    /\ root = [type |-> "calls", frames |-> <<>>]
    /\ live = {}
    /\ last = [NoCall EXCEPT !.op = "start"]
    /\ crashed = FALSE
    /\ parser \in {NewParser(json, tail, Len(json), 0) : json \in StepTexts, tail \in Tails}

NextSteps ==
    \/ StepStart
    \/ StepValue
    \/ StepArray
    \/ StepObject
    \/ StepString

SpecSteps == InitSteps /\ [][NextSteps]_vars

\* The routine runs on: a step that can be taken is taken.
SpecStepsFair == SpecSteps /\ WF_vars(NextSteps)

\* ----------------------------------------------------------------- claims
\* The (key, value) entries of an object, in slot order.
Entries(o) ==
    [i \in 1..o.n_items |->
        IF o.slots[i].rec <= 0 THEN <<"none">>
        ELSE <<o.slots[i].keystr, o.slots[i].value>>]

\* Every counted slot of the object holds an entry (no slot left NULL by a
\* json_object_set that failed after counting it).
ObjectWellFormed(o) == \A i \in 1..o.n_items : o.slots[i].rec > 0

ValidIndex == last.index >= 0 /\ last.index < last.pre.length

\* C1: a successful json_object_set makes json_object_get return the value
\* passed; when two successful json_object_set calls on the same key follow
\* one another, the second leaves the count unchanged and releases every
\* block of the value the first one stored, once.
C1_SetTwice ==
    /\ (last.op = "set" /\ last.rc = 0) => json_object_get(root, last.key) = last.arg
    /\ (/\ last.op = "set" /\ last.rc = 0
        /\ last.prev.op = "set" /\ last.prev.rc = 0 /\ last.prev.key = last.key)
       => LET v1 == json_object_get(last.pre, last.key)
          IN  /\ IsValue(v1)
              /\ json_object_count(root) = json_object_count(last.pre)
              /\ \A b \in BlocksOf(v1) : Count(last.freed, b) = 1 /\ b \notin live

C1_Witness ==
    /\ last.op = "set" /\ last.rc = 0
    /\ last.prev.op = "set" /\ last.prev.rc = 0 /\ last.prev.key = last.key
    /\ json_object_get(last.pre, last.key).type = "string"
    /\ last.arg.type = "array"

\* C2: a json_object_set that returns -1 leaves the count and the sequence
\* of (key, value) entries of the object as they were.
C2_SetFailureUnmodified ==
    (last.op = "set" /\ last.rc = -1)
    => /\ json_object_count(root) = json_object_count(last.pre)
       /\ Entries(root) = Entries(last.pre)

\* C3: no two entries of the object have equal keys.
C3_KeysUnique ==
    \A i, j \in 1..root.n_items :
        (i < j /\ root.slots[i].rec > 0 /\ root.slots[j].rec > 0)
        => ~json__streq(root.slots[i].keystr, root.slots[j].keystr)

C3_Witness ==
    /\ root.n_items = 2
    /\ last.op = "set" /\ last.rc = 0
    /\ json_object_has(last.pre, last.key) = 1
    /\ last.prev.op = "remove" /\ last.prev.rc = 0

\* C4: while json_array_push is all that was called on a fresh array, the
\* length is the number of successful pushes, capacity >= length, and each
\* successful push puts its value at the last index and leaves the values
\* at the indices before it in place.
C4_PushN ==
    last.npush >= 0
    => /\ root.length = last.npush
       /\ root.capacity >= root.length
       /\ (last.op = "push" /\ last.rc = 0)
          => /\ json_array_get(root, root.length - 1) = last.arg
             /\ \A i \in 0..(last.pre.length - 1) :
                    json_array_get(root, i) = json_array_get(last.pre, i)

C4_Witness == last.npush = 3 /\ root.capacity = 4 /\ last.op = "push" /\ last.rc = 0

\* C5: a json_array_push whose reallocation fails returns -1 and leaves the
\* length, the capacity, the item buffer and every element as they were.
C5_PushFailure ==
    (last.op = "push" /\ last.rc = -1) => root = last.pre

C5_Witness == last.op = "push" /\ last.rc = -1 /\ root.length = 2 /\ root.capacity = 2

\* C6: json_array_remove with a valid index leaves the former elements
\* without the one at that index, in their former order.
C6_RemoveStable ==
    (last.op = "aremove" /\ ValidIndex)
    => /\ ~crashed
       /\ root.length = last.pre.length - 1
       /\ \A j \in 0..(root.length - 1) :
              json_array_get(root, j)
                = json_array_get(last.pre, IF j < last.index THEN j ELSE j + 1)

C6_Witness ==
    last.op = "aremove" /\ last.index = 0 /\ last.pre.length = 3 /\ root.length = 2

\* C7: json_array_remove with an index out of bounds reads no slot outside
\* [0, length) and leaves the length and the elements unchanged.
C7_RemoveOutOfBounds ==
    (last.op = "aremove" /\ ~ValidIndex)
    => /\ ~last.oob
       /\ ~crashed
       /\ root.length = last.pre.length
       /\ \A j \in 0..(root.length - 1) :
              json_array_get(root, j) = json_array_get(last.pre, j)

\* C8: removing an entry from a container releases every block of the
\* removed value exactly once, whatever its variant.
C8_RemoveReleases ==
    (/\ ~crashed
     /\ \/ last.op = "aremove" /\ ValidIndex
        \/ last.op = "remove" /\ json_object_has(last.pre, last.key) = 1)
    => /\ IsValue(last.arg)
       /\ \A b \in BlocksOf(last.arg) : Count(last.freed, b) = 1 /\ b \notin live

C10_DecodeCleanup ==
    (last.op \in {"decode", "decode_with_length"} /\ last.rc = -1 /\ ~crashed)
    => \A b \in 1..(parser.next - 1) : Count(parser.freed, b) = 1

\* ------------------------------------------------------- RFC 8259 texts
\* The grammar of RFC 8259 over a byte sequence d with indices from 1: each
\* ...End operator yields the index behind the construct that starts at i,
\* or 0 when none starts there.
Byte(d, i) == IF i >= 1 /\ i <= Len(d) THEN d[i] ELSE -1

RECURSIVE RfcWs(_, _), RfcDigitsEnd(_, _), RfcChars(_, _), RfcValueEnd(_, _),
          RfcElements(_, _), RfcMembers(_, _)

RfcWs(d, i) == IF Byte(d, i) \in {32, 9, 10, 13} THEN RfcWs(d, i + 1) ELSE i

RfcDigitsEnd(d, i) == IF Byte(d, i) \in 48..57 THEN RfcDigitsEnd(d, i + 1) ELSE i

\* int = "0" / digit1-9 *DIGIT, behind an optional minus
RfcIntEnd(d, s) ==
    IF Byte(d, s) = 48 THEN s + 1
    ELSE IF Byte(d, s) \in 49..57 THEN RfcDigitsEnd(d, s)
    ELSE 0

\* [ frac ] behind the index a
RfcFracEnd(d, a) ==
    IF Byte(d, a) = 46 /\ Byte(d, a + 1) \in 48..57 THEN RfcDigitsEnd(d, a + 2) ELSE a

\* [ exp ] behind the index b
RfcExpEnd(d, b) ==
    IF Byte(d, b) \in {101, 69}
    THEN IF Byte(d, b + 1) \in {43, 45}
         THEN (IF Byte(d, b + 2) \in 48..57 THEN RfcDigitsEnd(d, b + 2) ELSE b)
         ELSE (IF Byte(d, b + 1) \in 48..57 THEN RfcDigitsEnd(d, b + 1) ELSE b)
    ELSE b

RfcFromInt(d, a) == IF a = 0 THEN 0 ELSE RfcExpEnd(d, RfcFracEnd(d, a))

\* number = [ minus ] int [ frac ] [ exp ]: the longest one that starts at i
RfcNumberEnd(d, i) == RfcFromInt(d, RfcIntEnd(d, IF Byte(d, i) = 45 THEN i + 1 ELSE i))

RfcHex(c) == c \in 48..57 \/ c \in 65..70 \/ c \in 97..102

\* the characters of a string up to and with the closing quotation mark
RfcChars(d, j) ==
    IF Byte(d, j) = 34 THEN j + 1
    ELSE IF Byte(d, j) = 92
    THEN IF Byte(d, j + 1) \in {34, 92, 47, 98, 102, 110, 114, 116} THEN RfcChars(d, j + 2)
         ELSE IF Byte(d, j + 1) = 117 /\ \A k \in 2..5 : RfcHex(Byte(d, j + k))
         THEN RfcChars(d, j + 6)
         ELSE 0
    ELSE IF Byte(d, j) < 32 THEN 0
    ELSE RfcChars(d, j + 1)

RfcStringEnd(d, i) == IF Byte(d, i) = 34 THEN RfcChars(d, i + 1) ELSE 0

RfcLiteral(d, i, word) ==
    i + Len(word) - 1 <= Len(d) /\ SubSeq(d, i, i + Len(word) - 1) = word

\* behind one element: a comma and more elements, or the closing bracket
RfcAfterElement(d, k) ==
    IF Byte(d, k) = 44 THEN RfcElements(d, RfcWs(d, k + 1))
    ELSE IF Byte(d, k) = 93 THEN k + 1
    ELSE 0

RfcElementEnd(d, e) == IF e = 0 THEN 0 ELSE RfcAfterElement(d, RfcWs(d, e))

RfcElements(d, j) == RfcElementEnd(d, RfcValueEnd(d, j))

RfcArrayOpen(d, j) == IF Byte(d, j) = 93 THEN j + 1 ELSE RfcElements(d, j)

\* behind one member: a comma and more members, or the closing brace
RfcAfterMember(d, k) ==
    IF Byte(d, k) = 44 THEN RfcMembers(d, RfcWs(d, k + 1))
    ELSE IF Byte(d, k) = 125 THEN k + 1
    ELSE 0

RfcMemberEnd(d, e) == IF e = 0 THEN 0 ELSE RfcAfterMember(d, RfcWs(d, e))

RfcMemberColon(d, k) ==
    IF Byte(d, k) = 58 THEN RfcMemberEnd(d, RfcValueEnd(d, RfcWs(d, k + 1))) ELSE 0

RfcMemberName(d, e) == IF e = 0 THEN 0 ELSE RfcMemberColon(d, RfcWs(d, e))

RfcMembers(d, j) == RfcMemberName(d, RfcStringEnd(d, j))

RfcObjectOpen(d, j) == IF Byte(d, j) = 125 THEN j + 1 ELSE RfcMembers(d, j)

RfcValueEnd(d, i) ==
    IF Byte(d, i) = 34 THEN RfcStringEnd(d, i)
    ELSE IF Byte(d, i) = 91 THEN RfcArrayOpen(d, RfcWs(d, i + 1))
    ELSE IF Byte(d, i) = 123 THEN RfcObjectOpen(d, RfcWs(d, i + 1))
    ELSE IF RfcLiteral(d, i, <<116, 114, 117, 101>>) THEN i + 4
    ELSE IF RfcLiteral(d, i, <<102, 97, 108, 115, 101>>) THEN i + 5
    ELSE IF RfcLiteral(d, i, <<110, 117, 108, 108>>) THEN i + 4
    ELSE RfcNumberEnd(d, i)

RfcTextEnd(d, e) == e # 0 /\ RfcWs(d, e) = Len(d) + 1

\* JSON-text = ws value ws
RfcText(d) == RfcTextEnd(d, RfcValueEnd(d, RfcWs(d, 1)))

\* C11: json_decode of a valid JSON text, with no allocation failing,
\* succeeds and returns a value.
C11_DecodeValid ==
    (last.op = "decode" /\ parser.failAt = 0 /\ RfcText(parser.input))
    => (last.rc = 0 /\ IsValue(root))

\* Structural equality of two trees: the same variant at every node, equal
\* payloads, arrays equal element by element, objects equal as sets of
\* key to value.
RECURSIVE StructEq(_, _)
StructEq(a, b) ==
    /\ a.type = b.type
    /\ CASE a.type = "string" -> a.length = b.length /\ a.value = b.value
         [] a.type \in {"number", "boolean"} -> a.number = b.number
         [] a.type = "array" ->
               /\ a.length = b.length
               /\ \A i \in 1..a.length : StructEq(a.slots[i], b.slots[i])
         [] a.type = "object" ->
               /\ a.n_items = b.n_items
               /\ \A i \in 1..a.n_items : \E j \in 1..b.n_items :
                      /\ a.slots[i].keystr = b.slots[j].keystr
                      /\ StructEq(a.slots[i].value, b.slots[j].value)
               /\ \A j \in 1..b.n_items : \E i \in 1..a.n_items :
                      /\ a.slots[i].keystr = b.slots[j].keystr
                      /\ StructEq(a.slots[i].value, b.slots[j].value)
         [] OTHER -> TRUE

\* C12: when no allocation fails, decoding the text json_encode makes of a
\* decoded tree succeeds and gives a tree structurally equal to it.
C12_RoundTrip ==
    (last.op = "roundtrip" /\ parser.failAt = 0)
    => (last.index # 0 /\ last.rc = 0 /\ StructEq(last.arg, root))

\* C13: for every finite double x, decoding the text json_encode makes of
\* json_number_new(x) succeeds and gives a number equal to x, sign of zero
\* included.
C13_NumberRoundTrip ==
    (last.op = "roundtrip" /\ root.type = "number" /\ last.index # 0)
    => (last.rc = 0 /\ last.arg.type = "number" /\ last.arg.number = root.number)

\* A number that needs all PRECISION digits came back the same.
C13_Witness ==
    /\ last.op = "roundtrip"
    /\ root.type = "number"
    /\ last.rc = 0
    /\ last.arg.number = root.number
    /\ Len(last.key) > PRECISION
    /\ root.number.man = <<1, 3, 5, 1, 0, 7, 9, 8, 8, 8, 2, 1, 1, 1, 4, 9>>

\* A valid JSON text with one comma added in front of a closing bracket or
\* brace (only blanks between them).
TrailingComma(d) ==
    \E i \in 1..Len(d) :
        /\ d[i] = 44
        /\ Byte(d, RfcWs(d, i + 1)) \in {93, 125}
        /\ RfcText(SubSeq(d, 1, i - 1) \o SubSeq(d, i + 1, Len(d)))

\* C14: json_decode rejects a text with a trailing comma before the closing
\* bracket of an array or the closing brace of an object.
C14_TrailingComma ==
    (last.op = "decode" /\ TrailingComma(parser.input)) => last.rc = -1

\* The bytes in memory from the start of the buffer: the buffer and the zero
\* behind it.
Memory(p) == p.input \o p.tail

\* The bytes of the buffer proper.
Buffer(p) == SubSeq(p.input, 1, p.length)

\* A '0' that starts the integer part and is followed by another digit.
LeadingZero(d, i) == Byte(d, i) = 48 /\ Byte(d, i + 1) \in 48..57

\* C15: json__decode_number started at cursor p succeeds only when a token
\* -?(0|[1-9][0-9]*)(.[0-9]+)?([eE][+-]?[0-9]+)? starts at p, it then leaves
\* the cursor behind the longest such token, and it fails on a '0' followed
\* by another digit.
C15_NumberGrammar ==
    last.op = "decode_number" =>
        /\ last.rc = 0 =>
               /\ RfcNumberEnd(Buffer(parser), last.index + 1) # 0
               /\ parser.position + 1 = RfcNumberEnd(Buffer(parser), last.index + 1)
               /\ parser.position + 1 = RfcNumberEnd(Memory(parser), last.index + 1)
               /\ root.type = "number"
        /\ (\/ LeadingZero(Memory(parser), last.index + 1)
            \/ /\ Byte(Memory(parser), last.index + 1) = 45
               /\ LeadingZero(Memory(parser), last.index + 2)) => last.rc = -1

\* A number with fraction and exponent was read to its end.
C15_Witness ==
    /\ last.op = "decode_number"
    /\ last.rc = 0
    /\ last.index = 0
    /\ parser.position = Len(parser.input)
    /\ parser.position > MaxScan
    /\ \E i \in 1..Len(parser.input) : parser.input[i] = 46
    /\ \E i \in 1..Len(parser.input) : parser.input[i] = 101

\* The literal a decoded Boolean or Null stands for.
LiteralOf(v) ==
    IF v.type = "null" THEN <<110, 117, 108, 108>>
    ELSE IF v.number = 1 THEN <<116, 114, 117, 101>>
    ELSE <<102, 97, 108, 115, 101>>

\* C16: json__decode_value gives Boolean true, Boolean false or Null only
\* when the bytes at the cursor are exactly true, false or null and all lie
\* before index length.
C16_LiteralExact ==
    (last.op = "decode_value" /\ last.rc = 0 /\ root.type \in {"boolean", "null"})
    => RfcLiteral(Buffer(parser), last.index + 1, LiteralOf(root))

\* C17: during json_decode_with_length(buf, n) the position never exceeds n
\* and no byte at index n or behind it is read.
C17_WithinLength ==
    last.op = "decode_with_length" => (~last.oob /\ parser.position <= parser.length)

\* The number the four hex digits d[i..i+3] spell, -1 when they are not four
\* hex digits.
HexValue(d, i) ==
    IF \A k \in 0..3 : RfcHex(Byte(d, i + k))
    THEN HexDigit(d[i]) * 4096 + HexDigit(d[i + 1]) * 256 + HexDigit(d[i + 2]) * 16
         + HexDigit(d[i + 3])
    ELSE -1

\* The escape of a low surrogate stands at d[i..i+5].
LowSurrogateAt(d, i) ==
    /\ Byte(d, i) = 92
    /\ Byte(d, i + 1) = 117
    /\ HexValue(d, i + 2) \in 56320..57343

\* The four UTF-8 bytes of 0x10000 + ((h - 0xD800) << 10) + (l - 0xDC00).
PairBytes(h, l) ==
    <<240 + ((h - 55296 + 64) \div 256),
      128 + (((h - 55296 + 64) \div 4) % 64),
      128 + ((h - 55296) % 4) * 16 + ((l - 56320) \div 64),
      128 + (l % 64)>>

\* C18: in a string, the escape of a high surrogate followed by the escape
\* of a low surrogate gives the four UTF-8 bytes of the code point of the
\* pair; followed by anything else it makes json_decode fail with a SYNTAX
\* error (no allocation failing).
C18_Surrogates ==
    (/\ last.op = "decode"
     /\ parser.failAt = 0
     /\ parser.input \in SurrogateTexts
     /\ HexValue(parser.input, 4) \in 55296..56319)
    => IF LowSurrogateAt(parser.input, 8)
       THEN /\ last.rc = 0
            /\ root.type = "string"
            /\ root.value = PairBytes(HexValue(parser.input, 4), HexValue(parser.input, 10))
       ELSE last.rc = -1 /\ parser.code = "SYNTAX" /\ root = Uninit

\* The pair D83D DE00 (U+1F600) was decoded to F0 9F 98 80.
C18_Witness ==
    /\ last.op = "decode"
    /\ last.rc = 0
    /\ parser.input = <<34, 92, 117, 68, 56, 51, 68, 92, 117, 68, 69, 48, 48, 34>>
    /\ root.value = <<240, 159, 152, 128>>

\* The index behind the character that starts at b[i]: an ASCII byte that
\* needs no escape, or a lead byte with its one, two or three continuation
\* bytes; 0 when none starts there.
PlainCharEnd(b, i) ==
    IF Byte(b, i) \in 32..127 \ {34, 92, 47} THEN i + 1
    ELSE IF Byte(b, i) \in 192..223 /\ Byte(b, i + 1) \in 128..191 THEN i + 2
    ELSE IF Byte(b, i) \in 224..239 /\ \A k \in 1..2 : Byte(b, i + k) \in 128..191 THEN i + 3
    ELSE IF Byte(b, i) \in 240..247 /\ \A k \in 1..3 : Byte(b, i + k) \in 128..191 THEN i + 4
    ELSE 0

\* b[i..] is made of such characters only.
RECURSIVE PlainChars(_, _)
PlainChars(b, i) ==
    \/ i = Len(b) + 1
    \/ PlainCharEnd(b, i) # 0 /\ PlainChars(b, PlainCharEnd(b, i))

\* C19: json_encode of a string of unescaped ASCII and valid UTF-8 multi-byte
\* sequences gives the bytes of the string between quotation marks, with no
\* FFFD escape in it, wherever in the string the sequences start.
C19_Utf8Verbatim ==
    (/\ last.op = "roundtrip"
     /\ root.type = "string"
     /\ last.index # 0
     /\ PlainChars(root.value, 1))
    => last.key = <<34>> \o root.value \o <<34>>

\* C20: when an allocation or reallocation fails during json_encode, the call
\* returns NULL without dereferencing a null pointer or freeing a block
\* twice, and the blocks left allocated are those of the value alone.
C20_EncodeFailure ==
    (last.op = "roundtrip" /\ parser.failAt # 0)
    => (last.index = 0 /\ ~crashed /\ ~last.ub /\ live = BlocksOf(root))

\* C21: a String made by json_string_new or by the decoder, or changed by
\* json_string_set, has capacity >= length and length equal to the number of
\* bytes of its buffer.
C21_StringCapacity ==
    (last.op \in {"string_new", "decode", "string_set"} /\ root.type = "string")
    => (root.capacity >= root.length /\ root.length = Len(root.value))

\* C22: when every allocation succeeds json_deep_copy(v) returns a tree that is
\* structurally equal to v and shares no block with it, and freeing the copy
\* leaves every block of v allocated and v as it was.
C22_DeepCopy ==
    /\ last.op = "deep_copy" =>
           /\ StructEq(last.arg, root)
           /\ BlocksOf(last.arg) \cap BlocksOf(root) = {}
           /\ BlocksOf(last.arg) \cup BlocksOf(root) \subseteq live
    /\ last.op = "free_copy" =>
           /\ root = last.pre
           /\ BlocksOf(root) \subseteq live
           /\ ~last.ub

\* C23: json_free(v) of a well-formed tree releases every block reachable from
\* v (Value cells, string buffers, key buffers, entry records, item buffers)
\* exactly once, and no block that is not reachable from v.
C23_FreeExact ==
    /\ last.op = "free" =>
           /\ \A b \in BlocksOf(last.pre) : Count(last.freed, b) = 1
           /\ Range(last.freed) \subseteq BlocksOf(last.pre)
           /\ live = last.arg \ BlocksOf(last.pre)
           /\ ~last.ub
    /\ last.op = "free_copy" =>
           /\ \A b \in BlocksOf(last.arg) : Count(last.freed, b) = 1
           /\ Range(last.freed) \subseteq BlocksOf(last.arg)
           /\ BlocksOf(last.pre) \subseteq live
           /\ ~last.ub

\* An object that holds an array of a string has been freed.
C23_Witness ==
    /\ last.op = "free"
    /\ last.pre.type = "object"
    /\ last.pre.n_items = 1
    /\ last.pre.slots[1].value.type = "array"
    /\ last.pre.slots[1].value.length = 1
    /\ last.pre.slots[1].value.slots[1].type = "string"
    /\ Len(last.freed) = 8

\* C24: when json_decode fails on a number token that leaves the number
\* grammar, the error kind it reports is INVALID_NUMBER, whether the token is
\* at the top level, an array element or the value of an object entry.
C24_InvalidNumber ==
    (last.op = "decode" /\ last.rc # 0) => parser.code = "INVALID_NUMBER"

\* C25: when an allocation or reallocation request made during json_decode
\* fails, growing the item buffer of an array included, json_decode returns
\* no value.
C25_MemoryTerminal ==
    (last.op \in {"decode", "decode_with_length"} /\ parser.failAt > 0
        /\ parser.failAt <= parser.allocs)
    => (last.rc # 0 /\ root = Uninit)

\* C26: json_array_clear on an array of n >= 0 elements ends with length 0,
\* hands json_array_remove only indices i with 0 <= i < the current length,
\* and releases every block of every element exactly once.
C26_ArrayClear ==
    last.op = "aclear" =>
        /\ ~crashed
        /\ root.length = 0
        /\ ~last.oob
        /\ ~last.ub
        /\ \A b \in SlotBlocks(last.pre, 1, last.pre.length) : Count(last.freed, b) = 1

\* C27: json__encode_array and json__encode_object write no byte at an index
\* >= the current size of their output buffer, the closing bracket and the
\* terminating zero included, whatever the initial size of the buffer and the
\* lengths of the encoded children.
C27_EncodeInBuffer ==
    last.op = "encode_sized" => ~last.oob

\* A valid JSON text followed, after optional whitespace, by a byte that is
\* not whitespace, the whole not being a valid JSON text:  1 x   [1]]
TrailingBytes(d) ==
    /\ ~RfcText(d)
    /\ \E i \in 1..(Len(d) - 1) :
           /\ RfcText(SubSeq(d, 1, i))
           /\ RfcWs(d, i + 1) <= Len(d)

\* C28: json_decode returns no value when a byte that is not whitespace
\* follows the first value of the input.
C28_WholeInput ==
    (last.op = "decode" /\ TrailingBytes(parser.input)) => last.rc # 0

\* C29: for a string s of bytes 01..7F, decoding the text json_encode makes of
\* json_string_new(s) succeeds and gives a String of the same length and bytes.
C29_AsciiRoundTrip ==
    /\ last.op = "encode" => (last.rc = 0 /\ ~last.oob)
    /\ last.op = "decode_text" =>
           /\ last.rc = 0
           /\ ~crashed
           /\ last.arg.type = "string"
           /\ last.arg.length = root.length
           /\ last.arg.value = root.value
           /\ last.arg.length = Len(last.arg.value)

\* A string of a control character and a slash went through both escapes
\* and came back.
C29_Witness ==
    /\ last.op = "decode_text"
    /\ root.value = <<31, 47>>
    /\ last.key = <<34, 92, 117, 48, 48, 49, 70, 92, 47, 34>>
    /\ last.arg.value = <<31, 47>>

\* Since the previous test of the condition of the loop the machine is in,
\* the cursor the loop moves has grown: the position for the array element and
\* object entry loops, end for the string scan loop.
LoopAdvances ==
    /\ last.op \in {"array_loop", "object_loop"} => Top(root.frames).at < parser.position
    /\ last.op = "string_loop" => Top(root.frames).at < Top(root.frames).end

\* C30: json_decode_with_length terminates on every input: each turn of the
\* array element loop, the object entry loop and the string scan loop moves
\* the cursor forward or ends the call, and the call returns in the end.
C30_Terminates ==
    /\ []LoopAdvances
    /\ <>(last.op \in {"done", "failed"})

\* The decode of [1,[1],{"a":[1]}] has gone through nested loops and returned
\* a value with the cursor at the end of the input.
C30_Witness ==
    /\ last.op = "done"
    /\ Len(parser.input) = 17
    /\ parser.position = parser.length

====
